---- MODULE Spec2Model ----
(***************************************************************************)
(* Session timer, adaptive interval engine and event log of Procheck       *)
(* (src/latestprocheck/neueprufer_patched_v19.py, class App).              *)
(*                                                                         *)
(* Time is counted in half seconds, so that the float values of           *)
(* time.time() and session_elapsed keep a fractional part and int(...) is  *)
(* a real truncation.  Texts (task names) are sequences of one-character  *)
(* strings so that str.strip() is computed.  A note is the sequence of    *)
(* its whitespace-separated tokens.  A row of the log holds the columns   *)
(* event, task, session_seconds and note; the timestamp column, which no  *)
(* handler of the timer reads back, is left out of the rows.              *)
(*                                                                         *)
(* Modal dialogs (grab_set + wait_window) are suspension points: the       *)
(* handler that opened the dialog is split at the wait, `stack` holds the  *)
(* open dialogs, and `in_tick` says that the pending handler is _tick      *)
(* itself, which therefore has not rescheduled itself yet.                 *)
(***************************************************************************)
EXTENDS Integers, Sequences, FiniteSets, TLC

\* ---------------------------------------------------------------- constants
DEFAULT_INTERVAL_MIN == 10
MIN_INTERVAL == 3
MAX_INTERVAL == 30
STEP_UP == 2
STEP_DOWN == 3
STREAK_FOR_STEPUP == 2

\* ------------------------------------------------------------------- bounds
MaxWork == 3
MaxClock == 3700
MaxElapsed == 7300
\* what a failed log write costs of the MaxWork budget
FailureWeight == 2
\* half hours a session is followed for in the runs with fairness
MaxSteps == 2
\* requests made to the debounced jobs of the window
MaxRequests == 3
\* rows of the log file the statistics engine reads
MaxFileRows == 3
\* calls of load on an unchanged file
MaxLoads == 2

None == 0 - 1
NoText == <<"None">>
Clock0 == 1

\* Clock steps between two observations of time.time(): half an hour and
\* half a second forward, or as much backward (an adjustment of the clock).
\* One step reaches every check-in threshold (at most MAX_INTERVAL minutes)
\* and the default target duration.
Step == 30 * 60 * 2 + 1
Deltas == {0 - Step, Step}

\* The text the task entry is created with, "Deep work".
InitialTask == <<"D", "e", "e", "p", " ", "w", "o", "r", "k">>
\* Texts the user can type into the task entry.
RawTasks == {<<" ">>, InitialTask \o <<" ">>, <<"X">>}
\* Values the user can put into the interval spin box / target controls.
SpinValues == {1, 45}
TargetValues == {60}

\* ------------------------------------------------------------------ helpers
Max(a, b) == IF a >= b THEN a ELSE b
Min(a, b) == IF a <= b THEN a ELSE b

\* Faulty variant of clamp: the value passes through unclamped.
clamp_unclamped(v, lo, hi) == v

clamp(v, lo, hi) == Max(lo, Min(hi, v))

\* Python truthiness of an Optional[float] / Optional[int].
Truthy(x) == x # None /\ x # 0

\* int(x) of a float given in time units: truncation toward zero.
IntSecs(u) == IF u >= 0 THEN u \div 2 ELSE 0 - ((0 - u) \div 2)

\* seconds (an int) as a float in time units
Secs(s) == s * 2

RECURSIVE LStrip(_)
LStrip(s) == IF s # <<>> /\ Head(s) = " " THEN LStrip(Tail(s)) ELSE s

RECURSIVE RStrip(_)
RStrip(s) == IF s # <<>> /\ s[Len(s)] = " " THEN RStrip(SubSeq(s, 1, Len(s) - 1)) ELSE s

Strip(s) == RStrip(LStrip(s))

\* note tokens
KV(k, v) == [key |-> k, val |-> v, word |-> ""]
Word(w) == [key |-> "", val |-> 0, word |-> w]
\* the token "k=x" whose value is no integer
KVJunk(k) == [key |-> k, val |-> 0, word |-> "x"]

Reasons == {<<>>, <<Word("tired")>>}

\* reason is the word list of the stripped reason text (<<>> for None or "").
_compose_note(reason, target_min, interval_min, extra) ==
    LET kv == (IF target_min # None /\ target_min # 0 THEN <<KV("target_min", target_min)>> ELSE <<>>)
              \o (IF interval_min # None /\ interval_min # 0 THEN <<KV("interval_min", interval_min)>> ELSE <<>>)
              \o (IF extra # "" THEN <<KV(extra, 1)>> ELSE <<>>)
        r == reason
    IN IF r # <<>> /\ kv # <<>> THEN r \o <<Word("|")>> \o kv ELSE r \o kv

\* -------------------------------------------------------------------- state
VARIABLES
    active_task,          \* text of the task entry (tk.StringVar)
    current_interval_min, \* interval spin box (tk.IntVar)
    target_duration_min,  \* target duration control (tk.IntVar)
    prompt_enabled,       \* "Enable check-ins"
    auto_stop_enabled,    \* "Auto-stop when target ends"
    session_start_ts,     \* None or time.time() at start
    session_elapsed,      \* float seconds, in time units
    last_tick,            \* None or time.time() of the last tick
    next_prompt_at,       \* None or elapsed threshold, in time units
    on_break,
    break_start_ts,
    break_task_for_log,
    break_note_for_log,
    tasks,                \* self.state["tasks"]: task -> [interval_min, yes_streak]
    log,                  \* rows of LOG_FILE after the header
    clock,                \* time.time(), in time units
    stack,                \* open modal dialogs, innermost last
    in_tick,              \* _tick is suspended in a dialog it opened
    edits,                \* number of settings the user has edited so far
    errors,               \* exceptions that left a callback (reported by Tk)
    tick_job,             \* after(200, _tick) is pending
    log_exists,           \* os.path.exists(LOG_FILE)
    log_file,             \* the rows of LOG_FILE as text, as StatsEngine reads them
    events,               \* StatsEngine.events
    result,               \* outcome of the last StatsEngine call
    loads,                \* calls of load since the file last changed
    _geom_save_job,       \* None or the id of the pending after(400, _save_window_geometry)
    _notes_save_job,      \* None or the id of the pending after(400, _save_current_note)
    _refresh_job,         \* None or the id of the pending after(200, _refresh_stats)
    after_queue,          \* Tk's timer handlers: [id, job, left]
    after_id,             \* the last id after() handed out
    quiet,                \* time since the last request of each job, up to its delay
    geometry,             \* self.geometry()
    window_geometry,      \* ui["window_geometry"] of the saved state
    selected_day,         \* the day selected in the calendar (tk.StringVar)
    notes_text,           \* the text of the notes widget
    notes_map,            \* day -> saved note (NOTES_FILE)
    requests              \* requests made to the debounced jobs so far

vars == <<active_task, current_interval_min, target_duration_min, prompt_enabled,
          auto_stop_enabled, session_start_ts, session_elapsed, last_tick,
          next_prompt_at, on_break, break_start_ts, break_task_for_log,
          break_note_for_log, tasks, log, clock, stack, in_tick, edits, errors,
          tick_job, log_exists, log_file, events, result, loads, _geom_save_job,
          _notes_save_job, _refresh_job, after_queue, after_id, quiet, geometry,
          window_geometry, selected_day, notes_text, notes_map, requests>>

\* The state of the timer window, and the state of the statistics engine.
app_vars == <<active_task, current_interval_min, target_duration_min, prompt_enabled,
              auto_stop_enabled, session_start_ts, session_elapsed, last_tick,
              next_prompt_at, on_break, break_start_ts, break_task_for_log,
              break_note_for_log, tasks, log, clock, stack, in_tick, edits, errors,
              tick_job>>
stats_vars == <<log_exists, log_file, events, result, loads>>
\* The debounced jobs of the window and what they save.
job_vars == <<_geom_save_job, _notes_save_job, _refresh_job, after_queue, after_id,
              quiet, requests>>
window_vars == <<job_vars, geometry, window_geometry, selected_day, notes_text,
                 notes_map>>

config_vars == <<target_duration_min, prompt_enabled, auto_stop_enabled>>
session_vars == <<session_start_ts, session_elapsed, last_tick, next_prompt_at>>
break_vars == <<on_break, break_start_ts, break_task_for_log, break_note_for_log>>

NewProfile == [interval_min |-> DEFAULT_INTERVAL_MIN, yes_streak |-> 0]

\* Faulty variant of _task_state: every reference hands out a fresh profile.
_task_state_reset(tks, task) ==
    [t \in DOMAIN tks \cup {task} |-> IF t = task THEN NewProfile ELSE tks[t]]

\* _task_state: the store after the lazy creation of task's profile
_task_state(tks, task) ==
    IF task \in DOMAIN tks THEN tks ELSE tks @@ (task :> NewProfile)

\* _append_log: lg with one more row.  secs_override is <<>> for None and
\* <<n>> for the number n; task_override = NoText stands for None.
_append_log(lg, event, note, secs_override, task_override) ==
    LET task == IF task_override # NoText THEN task_override ELSE Strip(active_task)
        secs == IF secs_override = <<>>
                THEN (IF Truthy(session_start_ts) THEN IntSecs(session_elapsed) ELSE 0)
                ELSE Max(0, secs_override[1])
    IN Append(lg, [event |-> event, task |-> task, session_seconds |-> secs,
                   note |-> note])

Frame(kind, task, tmin, interval_now) ==
    [kind |-> kind, task |-> task, tmin |-> tmin, interval_now |-> interval_now]

Top == stack[Len(stack)]
Pop == SubSeq(stack, 1, Len(stack) - 1)
TopIs(kind) == stack # <<>> /\ Top.kind = kind
\* The main window takes commands only while no modal dialog holds the grab.
MainWindow == stack = <<>>

\* ----------------------------------------------------- statistics: the data
\* A timestamp text is <<day, second of day>>, the day counted from a Monday
\* ("%Y-%m-%d %H:%M:%S"); any other shape, or a second outside the day, is a
\* text strptime rejects.
TsText(day, sec) == <<day, sec>>
parse_ok(ts) == Len(ts) = 2 /\ ts[1] >= 0 /\ ts[2] >= 0 /\ ts[2] < 86400
\* parse_ts of a text it accepts
parse_ts(ts) == [day |-> ts[1], sec |-> ts[2]]
day_key(dt) == dt.day
\* the order of datetime values
DtKey(dt) == dt.day * 86400 + dt.sec

\* The text of the session_seconds column: digits, nothing, or no integer.
IntText(n) == [kind |-> "int", n |-> n]
EmptyText == [kind |-> "empty", n |-> 0]
JunkText == [kind |-> "junk", n |-> 0]
\* int(x or 0) succeeds
int_ok(x) == x.kind # "junk"
\* int(x or 0)
int_of(x) == IF x.kind = "int" THEN x.n ELSE 0

\* A row of the file as csv.DictReader reads it.
Row(ts, event, task, secs, note) ==
    [timestamp |-> ts, event |-> event, task |-> task, session_seconds |-> secs,
     note |-> note]

NoResult == [op |-> "none", args |-> <<>>, raised |-> FALSE, value |-> <<>>]
Returned(op, args, value) == [op |-> op, args |-> args, raised |-> FALSE, value |-> value]
Raised(op, args) == [op |-> op, args |-> args, raised |-> TRUE, value |-> <<>>]

RECURSIVE GCD(_, _)
GCD(a, b) == IF b = 0 THEN a ELSE GCD(b, a % b)
\* n / d of two integers, d > 0: the quotient in lowest terms
Quotient(n, d) == <<n \div GCD(n, d), d \div GCD(n, d)>>
\* the None an average takes when there is nothing to average
NoAverage == <<>>
RECURSIVE SumSeq(_)
SumSeq(q) == IF q = <<>> THEN 0 ELSE Head(q) + SumSeq(Tail(q))
\* Faulty variant of Mean: 0 for the empty list.
Mean_zero(q) == IF q = <<>> THEN <<0, 1>> ELSE Quotient(SumSeq(q), Len(q))
\* sum(q) / len(q), None for the empty list
Mean(q) == IF q = <<>> THEN NoAverage ELSE Quotient(SumSeq(q), Len(q))

\* ------------------------------------------------------ the debounced jobs
\* Time of the after() timers is counted in units of 200 ms.
Jobs == {"geometry", "notes", "refresh"}
\* after(400, ...) for the geometry and the note, after(200, ...) for the refresh
Delay(j) == IF j = "refresh" THEN 1 ELSE 2
\* Sizes of the window, the days of the calendar and texts typed into the
\* notes widget.
InitialGeometry == "900x600"
Geometries == {"900x600", "1200x800"}
Today == 0
NoteDays == {0, 1}
NoteTexts == {<<"a">>, <<"a", "b", " ">>}

\* ------------------------------------------------------------ initial state
\* _load_state: no STATE_FILE yet, or the profiles an earlier run saved
\* (an override to 29, 45 or 1 followed by one on-task check-in).
Profile(i, y) == [interval_min |-> i, yes_streak |-> y]
StateFiles ==
    { [t \in {} |-> NewProfile],
      [t \in {InitialTask} |-> Profile(29, 1)],
      [t \in {InitialTask} |-> Profile(MAX_INTERVAL, 1)],
      [t \in {InitialTask} |-> Profile(MIN_INTERVAL, 1)] }

AppInit ==
    /\ active_task = InitialTask
    /\ current_interval_min = DEFAULT_INTERVAL_MIN
    /\ target_duration_min = 30
    /\ prompt_enabled = TRUE
    /\ auto_stop_enabled = TRUE
    /\ session_start_ts = None
    /\ session_elapsed = 0
    /\ last_tick = None
    /\ next_prompt_at = None
    /\ on_break = FALSE
    /\ break_start_ts = None
    /\ break_task_for_log = <<>>
    /\ break_note_for_log = <<>>
    /\ tasks \in StateFiles
    /\ log = <<>>
    /\ clock = Clock0
    /\ stack = <<>>
    /\ in_tick = FALSE
    /\ edits = 0
    /\ errors = 0
    /\ tick_job = TRUE
    /\ _geom_save_job = None
    /\ _notes_save_job = None
    /\ _refresh_job = None
    /\ after_queue = {}
    /\ after_id = 0
    /\ quiet = [j \in Jobs |-> Delay(j)]
    /\ geometry = InitialGeometry
    /\ window_geometry = InitialGeometry
    /\ selected_day = Today
    /\ notes_text = <<>>
    /\ notes_map = [d \in NoteDays |-> <<>>]
    /\ requests = 0

\* The timer alone: the statistics engine is not used.
Init ==
    /\ AppInit
    /\ log_exists = TRUE
    /\ log_file = <<>>
    /\ events = <<>>
    /\ result = NoResult
    /\ loads = 0

\* ------------------------------------------------------- adaptive interval
\* Faulty variant of AdaptedProfile: every on-task response steps the
\* interval up, whatever the streak.
AdaptedProfile_eager(on_task, st) ==
    IF on_task
    THEN [interval_min |-> clamp(st.interval_min + STEP_UP, MIN_INTERVAL, MAX_INTERVAL),
          yes_streak |-> 0]
    ELSE [interval_min |-> clamp(st.interval_min - STEP_DOWN, MIN_INTERVAL, MAX_INTERVAL),
          yes_streak |-> 0]

\* Faulty variant of AdaptedProfile: an off-task outcome keeps the streak.
AdaptedProfile_keepstreak(on_task, st) ==
    IF on_task
    THEN IF st.yes_streak + 1 >= STREAK_FOR_STEPUP
         THEN [interval_min |-> clamp(st.interval_min + STEP_UP, MIN_INTERVAL, MAX_INTERVAL),
               yes_streak |-> 0]
         ELSE [interval_min |-> st.interval_min, yes_streak |-> st.yes_streak + 1]
    ELSE [interval_min |-> clamp(st.interval_min - STEP_DOWN, MIN_INTERVAL, MAX_INTERVAL),
          yes_streak |-> st.yes_streak]

\* Faulty variant of AdaptedProfile: the step up comes one response late, so
\* the threshold is stored.
AdaptedProfile_late(on_task, st) ==
    IF on_task
    THEN IF st.yes_streak + 1 > STREAK_FOR_STEPUP
         THEN [interval_min |-> clamp(st.interval_min + STEP_UP, MIN_INTERVAL, MAX_INTERVAL),
               yes_streak |-> 0]
         ELSE [interval_min |-> st.interval_min, yes_streak |-> st.yes_streak + 1]
    ELSE [interval_min |-> clamp(st.interval_min - STEP_DOWN, MIN_INTERVAL, MAX_INTERVAL),
          yes_streak |-> 0]

\* The interval and streak _adapt_interval computes from a profile.
AdaptedProfile(on_task, st) ==
    IF on_task
    THEN IF st.yes_streak + 1 >= STREAK_FOR_STEPUP
         THEN [interval_min |-> clamp(st.interval_min + STEP_UP, MIN_INTERVAL, MAX_INTERVAL),
               yes_streak |-> 0]
         ELSE [interval_min |-> st.interval_min, yes_streak |-> st.yes_streak + 1]
    ELSE [interval_min |-> clamp(st.interval_min - STEP_DOWN, MIN_INTERVAL, MAX_INTERVAL),
          yes_streak |-> 0]

\* Faulty variant of AdaptLog: the adapt rows carry the interval from before
\* the adaptation.
AdaptLog_stale(on_task, st, lg) ==
    LET note == <<KV("interval_min", st.interval_min)>>
    IN IF on_task
       THEN IF st.yes_streak + 1 >= STREAK_FOR_STEPUP
            THEN _append_log(lg, "interval_adapt_up", note, <<>>, NoText)
            ELSE lg
       ELSE _append_log(lg, "interval_adapt_down", note, <<>>, NoText)

\* The rows _adapt_interval appends.
AdaptLog(on_task, st, lg) ==
    LET new == AdaptedProfile(on_task, st)
        note == <<KV("interval_min", new.interval_min)>>
    IN IF on_task
       THEN IF st.yes_streak + 1 >= STREAK_FOR_STEPUP
            THEN _append_log(lg, "interval_adapt_up", note, <<>>, NoText)
            ELSE lg
       ELSE _append_log(lg, "interval_adapt_down", note, <<>>, NoText)

\* Faulty variant of Rescheduled: no further check-in is scheduled.
Rescheduled_off(interval) == None

\* next_prompt_at as _adapt_interval and _manual_interval_changed leave it.
Rescheduled(interval) ==
    IF Truthy(session_start_ts)
    THEN session_elapsed + Secs(interval * 60)
    ELSE next_prompt_at

\* _adapt_interval(on_task), called with the log already extended to lg.
_adapt_interval(on_task, lg) ==
    LET task == Strip(active_task)
        tks == _task_state(tasks, task)
        new == AdaptedProfile(on_task, tks[task])
    IN IF task = <<>>
       THEN /\ log' = lg
            /\ UNCHANGED <<tasks, current_interval_min, next_prompt_at>>
       ELSE /\ log' = AdaptLog(on_task, tks[task], lg)
            /\ tasks' = [tks EXCEPT ![task] = new]
            /\ current_interval_min' = new.interval_min
            /\ next_prompt_at' = Rescheduled(new.interval_min)

\* ----------------------------------------------------------- environment
\* The wall clock moves (forward, or backward on an adjustment).
Advance(d) ==
    /\ clock + d >= Clock0
    /\ clock + d <= MaxClock
    /\ clock' = clock + d
    /\ UNCHANGED <<active_task, current_interval_min, config_vars, session_vars,
                   break_vars, tasks, log, stack, in_tick>>

\* The user edits the task entry; the variable trace runs _on_active_task_changed.
SetActiveTask(raw) ==
    /\ MainWindow
    /\ raw # active_task
    /\ active_task' = raw
    /\ tasks' = IF Strip(raw) = <<>> THEN tasks ELSE _task_state(tasks, Strip(raw))
    /\ UNCHANGED <<current_interval_min, config_vars, session_vars, break_vars,
                   log, clock, stack, in_tick>>

SetCurrentInterval(v) ==
    /\ MainWindow
    /\ v # current_interval_min
    /\ current_interval_min' = v
    /\ UNCHANGED <<active_task, config_vars, session_vars, break_vars, tasks,
                   log, clock, stack, in_tick>>

SetTarget(m) ==
    /\ MainWindow
    /\ m # target_duration_min
    /\ target_duration_min' = m
    /\ UNCHANGED <<active_task, current_interval_min, prompt_enabled, auto_stop_enabled,
                   session_vars, break_vars, tasks, log, clock, stack, in_tick>>

TogglePrompt ==
    /\ MainWindow
    /\ prompt_enabled' = ~prompt_enabled
    /\ UNCHANGED <<active_task, current_interval_min, target_duration_min,
                   auto_stop_enabled, session_vars, break_vars, tasks, log, clock,
                   stack, in_tick>>

ToggleAutoStop ==
    /\ MainWindow
    /\ auto_stop_enabled' = ~auto_stop_enabled
    /\ UNCHANGED <<active_task, current_interval_min, target_duration_min,
                   prompt_enabled, session_vars, break_vars, tasks, log, clock,
                   stack, in_tick>>

\* ------------------------------------------------------------ session timer
\* Faulty variant of _manual_interval_changed: the streak is kept.
_manual_interval_changed_keepstreak ==
    LET task == Strip(active_task)
        tks == _task_state(tasks, task)
        v == clamp(current_interval_min, MIN_INTERVAL, MAX_INTERVAL)
    IN /\ MainWindow
       /\ IF task = <<>>
          THEN UNCHANGED <<tasks, next_prompt_at, log>>
          ELSE /\ tasks' = [tks EXCEPT ![task].interval_min = v]
               /\ next_prompt_at' = Rescheduled(v)
               /\ log' = _append_log(log, "interval_set", <<KV("interval_min", v)>>,
                                     <<>>, NoText)
       /\ UNCHANGED <<active_task, current_interval_min, config_vars, session_start_ts,
                      session_elapsed, last_tick, break_vars, clock, stack, in_tick>>

\* "Apply to task"
_manual_interval_changed ==
    LET task == Strip(active_task)
        tks == _task_state(tasks, task)
        v == clamp(current_interval_min, MIN_INTERVAL, MAX_INTERVAL)
    IN /\ MainWindow
       /\ IF task = <<>>
          THEN UNCHANGED <<tasks, next_prompt_at, log>>
          ELSE /\ tasks' = [tks EXCEPT ![task] = [interval_min |-> v, yes_streak |-> 0]]
               /\ next_prompt_at' = Rescheduled(v)
               /\ log' = _append_log(log, "interval_set", <<KV("interval_min", v)>>,
                                     <<>>, NoText)
       /\ UNCHANGED <<active_task, current_interval_min, config_vars, session_start_ts,
                      session_elapsed, last_tick, break_vars, clock, stack, in_tick>>

\* Faulty variant of StartEffects: the first check-in is scheduled from the
\* default interval instead of the profile's.
StartEffects_default(task, lg) ==
    LET tks == _task_state(tasks, task)
        iv == tks[task].interval_min
    IN /\ tasks' = tks
       /\ current_interval_min' = iv
       /\ session_start_ts' = clock
       /\ session_elapsed' = 0
       /\ last_tick' = clock
       /\ next_prompt_at' = Secs(DEFAULT_INTERVAL_MIN * 60)
       /\ log' = Append(lg, [event |-> "start", task |-> task,
                             session_seconds |-> IntSecs(0),
                             note |-> _compose_note(<<>>, target_duration_min, iv, "")])

\* The assignments of start_session for a non-empty task, with the log
\* already extended to lg.  The start row is written after the session
\* fields are set, so its session_seconds is int(0.0).
StartEffects(task, lg) ==
    LET tks == _task_state(tasks, task)
        iv == tks[task].interval_min
    IN /\ tasks' = tks
       /\ current_interval_min' = iv
       /\ session_start_ts' = clock
       /\ session_elapsed' = 0
       /\ last_tick' = clock
       /\ next_prompt_at' = Secs(iv * 60)
       /\ log' = Append(lg, [event |-> "start", task |-> task,
                             session_seconds |-> IntSecs(0),
                             note |-> _compose_note(<<>>, target_duration_min, iv, "")])

start_session ==
    LET task == Strip(active_task)
    IN /\ MainWindow
       /\ IF task = <<>>
          THEN UNCHANGED <<tasks, current_interval_min, session_vars, log>>
          ELSE StartEffects(task, log)
       /\ UNCHANGED <<active_task, config_vars, break_vars, clock, stack, in_tick>>

\* Faulty variant of _end_session_ui: the session is left as it is.
_end_session_ui_kept ==
    UNCHANGED session_vars

\* _end_session_ui(reset=True)
_end_session_ui ==
    /\ session_start_ts' = None
    /\ last_tick' = None
    /\ next_prompt_at' = None
    /\ session_elapsed' = 0

\* Faulty variant of EndSession: the row is written after the reset, so it
\* carries 0 seconds.
EndSession_late(event) ==
    /\ MainWindow
    /\ IF ~Truthy(session_start_ts)
       THEN UNCHANGED <<session_vars, log>>
       ELSE /\ log' = _append_log(log, event,
                         _compose_note(<<>>, target_duration_min, current_interval_min, ""),
                         <<0>>, NoText)
            /\ _end_session_ui
    /\ UNCHANGED <<active_task, current_interval_min, config_vars, break_vars, tasks,
                   clock, stack, in_tick>>

\* stop_session and cancel_session differ in the event kind only.
EndSession(event) ==
    /\ MainWindow
    /\ IF ~Truthy(session_start_ts)
       THEN UNCHANGED <<session_vars, log>>
       ELSE /\ log' = _append_log(log, event,
                         _compose_note(<<>>, target_duration_min, current_interval_min, ""),
                         <<>>, NoText)
            /\ _end_session_ui
    /\ UNCHANGED <<active_task, current_interval_min, config_vars, break_vars, tasks,
                   clock, stack, in_tick>>

stop_session == EndSession("stop")

cancel_session == EndSession("cancel")

\* _begin_break past its on_break guard, up to wait_window: the break dialog
\* is pushed on dialogs.
_begin_break(dialogs, task_for_log, note) ==
    /\ on_break' = TRUE
    /\ break_start_ts' = clock
    /\ break_task_for_log' = Strip(task_for_log)
    /\ break_note_for_log' = note
    /\ stack' = Append(dialogs, Frame("break", Strip(task_for_log), target_duration_min,
                                      current_interval_min))

\* The Break button.  With a break active the command returns at once.
start_break ==
    LET task == Strip(active_task)
        interval_now == IF task # <<>> THEN current_interval_min ELSE None
        note == _compose_note(<<>>, target_duration_min, interval_now, "manual_break")
    IN /\ MainWindow
       /\ ~on_break
       /\ IF Truthy(session_start_ts)
          THEN /\ log' = _append_log(log, "stop", note, <<>>, NoText)
               /\ _end_session_ui
          ELSE UNCHANGED <<session_vars, log>>
       /\ _begin_break(stack, task, note)
       /\ UNCHANGED <<active_task, current_interval_min, config_vars, tasks, clock, in_tick>>

\* Faulty variant of TickResume: the check-in test leaves out the
\* "Enable check-ins" box.
TickResume_always(dialogs, elapsed, prompt_at, interval_now) ==
    IF prompt_at # None /\ elapsed >= prompt_at
    THEN /\ stack' = Append(dialogs, Frame("checkin", Strip(active_task),
                                           target_duration_min, interval_now))
         /\ in_tick' = TRUE
    ELSE /\ stack' = dialogs
         /\ in_tick' = FALSE

\* The rest of _tick after the session-finished branch: the check-in test
\* of lines 1443-1445 on the session as the dialog left it, then the tick
\* returns and reschedules itself.
TickResume(dialogs, elapsed, prompt_at, interval_now) ==
    IF prompt_enabled /\ prompt_at # None /\ elapsed >= prompt_at
    THEN /\ stack' = Append(dialogs, Frame("checkin", Strip(active_task),
                                           target_duration_min, interval_now))
         /\ in_tick' = TRUE
    ELSE /\ stack' = dialogs
         /\ in_tick' = FALSE

\* A dialog opened by a command closes: its handler returns to the event loop.
\* A dialog opened inside _tick closes: _tick goes on.
Resume(dialogs, elapsed, prompt_at, interval_now) ==
    IF in_tick
    THEN TickResume(dialogs, elapsed, prompt_at, interval_now)
    ELSE /\ stack' = dialogs
         /\ in_tick' = FALSE

\* Faulty variant of BreakLog: the duration is written as measured, without
\* the max(0, .) of _append_log.
BreakLog_signed ==
    LET elapsed == clock - (IF Truthy(break_start_ts) THEN break_start_ts ELSE clock)
    IN IF ~on_break
       THEN log
       ELSE Append(log, [event |-> "break", task |-> break_task_for_log,
                         session_seconds |-> IntSecs(elapsed),
                         note |-> break_note_for_log])

\* The log as _end_break(log=True) leaves it: nothing is appended when no
\* break is active.
BreakLog ==
    LET elapsed == clock - (IF Truthy(break_start_ts) THEN break_start_ts ELSE clock)
    IN IF ~on_break
       THEN log
       ELSE _append_log(log, "break", break_note_for_log, <<IntSecs(elapsed)>>,
                        break_task_for_log)

\* _end_break: the break fields it resets
_end_break ==
    IF ~on_break
    THEN UNCHANGED break_vars
    ELSE /\ on_break' = FALSE
         /\ break_start_ts' = None
         /\ UNCHANGED <<break_task_for_log, break_note_for_log>>

\* "End break" and the close box of the break dialog.
end_only ==
    /\ TopIs("break")
    /\ _end_break
    /\ log' = BreakLog
    /\ Resume(Pop, session_elapsed, next_prompt_at, current_interval_min)
    /\ UNCHANGED <<active_task, current_interval_min, config_vars, session_vars,
                   tasks, clock>>

\* "End break & start session"
end_and_start ==
    LET task == Strip(active_task)
    IN /\ TopIs("break")
       /\ _end_break
       /\ IF task = <<>>
          THEN /\ log' = BreakLog
               /\ UNCHANGED <<tasks, current_interval_min, session_vars>>
          ELSE StartEffects(task, BreakLog)
       /\ Resume(Pop, session_elapsed', next_prompt_at', current_interval_min')
       /\ UNCHANGED <<active_task, config_vars, clock>>

\* "Mark procrastination" up to the reason prompt.
mark_procrastination ==
    /\ MainWindow
    /\ stack' = IF Truthy(session_start_ts)
                THEN Append(stack, Frame("procr", Strip(active_task), target_duration_min,
                                         current_interval_min))
                ELSE stack
    /\ UNCHANGED <<active_task, current_interval_min, config_vars, session_vars,
                   break_vars, tasks, log, clock, in_tick>>

\* Faulty variant of ProcrastinationCancelled: the dismissal is treated as an
\* empty reason.
ProcrastinationCancelled_logged ==
    /\ TopIs("procr")
    /\ _adapt_interval(FALSE,
          _append_log(log, "procrastination",
                      _compose_note(<<>>, target_duration_min, current_interval_min, ""),
                      <<>>, NoText))
    /\ stack' = Pop
    /\ UNCHANGED <<active_task, config_vars, session_start_ts, session_elapsed, last_tick,
                   break_vars, clock, in_tick>>

\* The reason prompt of mark_procrastination is dismissed (askstring -> None).
ProcrastinationCancelled ==
    /\ TopIs("procr")
    /\ stack' = Pop
    /\ UNCHANGED <<active_task, current_interval_min, config_vars, session_vars,
                   break_vars, tasks, log, clock, in_tick>>

\* Faulty variant of ProcrastinationReason: the on-task branch of the engine
\* is run.
ProcrastinationReason_ontask(reason) ==
    /\ TopIs("procr")
    /\ _adapt_interval(TRUE,
          _append_log(log, "procrastination",
                      _compose_note(reason, target_duration_min, current_interval_min, ""),
                      <<>>, NoText))
    /\ stack' = Pop
    /\ UNCHANGED <<active_task, config_vars, session_start_ts, session_elapsed, last_tick,
                   break_vars, clock, in_tick>>

\* The reason prompt of mark_procrastination is answered.
ProcrastinationReason(reason) ==
    /\ TopIs("procr")
    /\ _adapt_interval(FALSE,
          _append_log(log, "procrastination",
                      _compose_note(reason, target_duration_min, current_interval_min, ""),
                      <<>>, NoText))
    /\ stack' = Pop
    /\ UNCHANGED <<active_task, config_vars, session_start_ts, session_elapsed, last_tick,
                   break_vars, clock, in_tick>>

\* ---------------------------------------------------------------- the tick
\* Faulty variant of _tick: at the target the session is stopped without asking.
_tick_autoterminate ==
    LET lt == IF last_tick = None THEN clock ELSE last_tick
        dt == clock - lt
        elapsed == session_elapsed + Max(0, dt)
        target_s == Secs(target_duration_min * 60)
    IN /\ tick_job
       /\ ~in_tick
       /\ IF Truthy(session_start_ts)
          THEN IF auto_stop_enabled /\ target_s > 0 /\ elapsed >= target_s
               THEN /\ log' = _append_log(log, "stop",
                                 _compose_note(<<>>, target_duration_min,
                                               current_interval_min, "auto_stop"),
                                 <<IntSecs(elapsed)>>, NoText)
                    /\ _end_session_ui
                    /\ UNCHANGED <<stack, in_tick>>
               ELSE /\ last_tick' = clock
                    /\ session_elapsed' = elapsed
                    /\ TickResume(stack, elapsed, next_prompt_at, current_interval_min)
                    /\ UNCHANGED <<log, session_start_ts, next_prompt_at>>
          ELSE UNCHANGED <<last_tick, session_elapsed, stack, in_tick, log,
                           session_start_ts, next_prompt_at>>
       /\ UNCHANGED <<active_task, current_interval_min, config_vars, break_vars,
                      tasks, clock>>

\* _tick, up to the first dialog it opens (or to its end).
\* Faulty variant of _tick: the time since the last tick is added as it is.
_tick_signed ==
    LET lt == IF last_tick = None THEN clock ELSE last_tick
        dt == clock - lt
        elapsed == session_elapsed + dt
        target_s == Secs(target_duration_min * 60)
    IN /\ tick_job
       /\ ~in_tick
       /\ IF Truthy(session_start_ts)
          THEN /\ last_tick' = clock
               /\ session_elapsed' = elapsed
               /\ IF auto_stop_enabled /\ target_s > 0 /\ elapsed >= target_s
                  THEN /\ stack' = Append(stack, Frame("finished", Strip(active_task),
                                           target_duration_min, current_interval_min))
                       /\ in_tick' = TRUE
                  ELSE TickResume(stack, elapsed, next_prompt_at, current_interval_min)
          ELSE UNCHANGED <<last_tick, session_elapsed, stack, in_tick>>
       /\ UNCHANGED <<active_task, current_interval_min, config_vars, session_start_ts,
                      next_prompt_at, break_vars, tasks, log, clock>>

_tick ==
    LET lt == IF last_tick = None THEN clock ELSE last_tick
        dt == clock - lt
        elapsed == session_elapsed + Max(0, dt)
        target_s == Secs(target_duration_min * 60)
    IN /\ tick_job
       /\ ~in_tick
       /\ IF Truthy(session_start_ts)
          THEN /\ last_tick' = clock
               /\ session_elapsed' = elapsed
               /\ IF auto_stop_enabled /\ target_s > 0 /\ elapsed >= target_s
                  THEN /\ stack' = Append(stack, Frame("finished", Strip(active_task),
                                           target_duration_min, current_interval_min))
                       /\ in_tick' = TRUE
                  ELSE TickResume(stack, elapsed, next_prompt_at, current_interval_min)
          ELSE UNCHANGED <<last_tick, session_elapsed, stack, in_tick>>
       /\ UNCHANGED <<active_task, current_interval_min, config_vars, session_start_ts,
                      next_prompt_at, break_vars, tasks, log, clock>>

\* --------------------------------------------------- session-finished dialog
\* "Break"
do_break ==
    /\ TopIs("finished")
    /\ _end_session_ui
    /\ IF on_break
       THEN /\ UNCHANGED break_vars
            /\ TickResume(Pop, session_elapsed', next_prompt_at', current_interval_min)
       ELSE /\ _begin_break(Pop, Top.task,
                            _compose_note(<<>>, Top.tmin, Top.interval_now, "auto_stop"))
            /\ UNCHANGED in_tick
    /\ UNCHANGED <<active_task, current_interval_min, config_vars, tasks, log, clock>>

\* "Continue session"
do_continue ==
    LET task == Strip(active_task)
    IN /\ TopIs("finished")
       /\ IF task = <<>>
          THEN /\ _end_session_ui
               /\ UNCHANGED <<tasks, current_interval_min, log>>
          ELSE StartEffects(task, log)
       /\ TickResume(Pop, session_elapsed', next_prompt_at', current_interval_min')
       /\ UNCHANGED <<active_task, config_vars, break_vars, clock>>

\* "End session"
do_end ==
    /\ TopIs("finished")
    /\ log' = _append_log(log, "stop",
                 _compose_note(<<>>, Top.tmin, Top.interval_now, "auto_stop"), <<>>, NoText)
    /\ _end_session_ui
    /\ TickResume(Pop, session_elapsed', next_prompt_at', current_interval_min)
    /\ UNCHANGED <<active_task, current_interval_min, config_vars, break_vars, tasks, clock>>

\* The dialog is closed by its close box: no choice is made.
FinishedDismissed ==
    /\ TopIs("finished")
    /\ TickResume(Pop, session_elapsed, next_prompt_at, current_interval_min)
    /\ UNCHANGED <<active_task, current_interval_min, config_vars, session_vars,
                   break_vars, tasks, log, clock>>

\* ------------------------------------------------------------ check-in dialog
\* "Yes (on task)"
CheckinYes ==
    /\ TopIs("checkin")
    /\ _adapt_interval(TRUE,
          _append_log(log, "checkin_on_task",
                      _compose_note(<<>>, target_duration_min, Top.interval_now, ""),
                      <<>>, NoText))
    /\ stack' = Pop
    /\ in_tick' = FALSE
    /\ UNCHANGED <<active_task, config_vars, session_start_ts, session_elapsed, last_tick,
                   break_vars, clock>>

\* "No (off task)": the reason prompt opens.
CheckinNo ==
    /\ TopIs("checkin")
    /\ stack' = Append(Pop, [Top EXCEPT !.kind = "offreason"])
    /\ UNCHANGED <<active_task, current_interval_min, config_vars, session_vars,
                   break_vars, tasks, log, clock, in_tick>>

\* The check-in dialog is closed by its close box, or the off-task reason
\* prompt is dismissed: _prompt_checkin returns without an answer.
CheckinDismissed ==
    /\ TopIs("checkin") \/ TopIs("offreason")
    /\ stack' = Pop
    /\ in_tick' = FALSE
    /\ UNCHANGED <<active_task, current_interval_min, config_vars, session_vars,
                   break_vars, tasks, log, clock>>

\* The off-task reason prompt is answered.
CheckinOffReason(reason) ==
    /\ TopIs("offreason")
    /\ _adapt_interval(FALSE,
          _append_log(log, "checkin_off_task",
                      _compose_note(reason, target_duration_min, Top.interval_now, ""),
                      <<>>, NoText))
    /\ stack' = Pop
    /\ in_tick' = FALSE
    /\ UNCHANGED <<active_task, config_vars, session_start_ts, session_elapsed, last_tick,
                   break_vars, clock>>

\* --------------------------------------------------------- failing log writes
\* _append_log has no exception handler: when open() or the write fails, the
\* exception leaves the handler at its first _append_log call.  What the
\* handler did before that call stays done, the rest is not run, and Tk
\* reports the exception of the callback.

\* stop_session / cancel_session: the row is written first, so nothing changes.
EndSessionWriteFails ==
    /\ MainWindow
    /\ Truthy(session_start_ts)
    /\ UNCHANGED <<active_task, current_interval_min, config_vars, session_vars,
                   break_vars, tasks, log, clock, stack, in_tick, tick_job>>

\* start_session: the session fields are set before the start row is written.
StartWriteFails ==
    LET task == Strip(active_task)
        tks == _task_state(tasks, task)
        iv == tks[task].interval_min
    IN /\ MainWindow
       /\ task # <<>>
       /\ tasks' = tks
       /\ current_interval_min' = iv
       /\ session_start_ts' = clock
       /\ session_elapsed' = 0
       /\ last_tick' = clock
       /\ next_prompt_at' = Secs(iv * 60)
       /\ UNCHANGED <<active_task, config_vars, break_vars, log, clock, stack, in_tick,
                      tick_job>>

\* end_only: _end_break has reset the break fields; win.destroy() is not
\* reached, so the break dialog stays open.
EndBreakWriteFails ==
    /\ TopIs("break")
    /\ on_break
    /\ on_break' = FALSE
    /\ break_start_ts' = None
    /\ UNCHANGED <<active_task, current_interval_min, config_vars, session_vars,
                   break_task_for_log, break_note_for_log, tasks, log, clock, stack,
                   in_tick, tick_job>>

\* mark_procrastination: the reason prompt has closed, nothing else is done.
ProcrastinationWriteFails ==
    /\ TopIs("procr")
    /\ stack' = Pop
    /\ UNCHANGED <<active_task, current_interval_min, config_vars, session_vars,
                   break_vars, tasks, log, clock, in_tick, tick_job>>

\* _prompt_checkin, answered (yes, or no with a reason): the dialog has
\* closed; the exception leaves _prompt_checkin and _tick before line 1457,
\* so the tick is not scheduled again.
CheckinWriteFails ==
    /\ TopIs("checkin") \/ TopIs("offreason")
    /\ stack' = Pop
    /\ in_tick' = FALSE
    /\ tick_job' = FALSE
    /\ UNCHANGED <<active_task, current_interval_min, config_vars, session_vars,
                   break_vars, tasks, log, clock>>

\* ------------------------------------------------------------ specification
\* The user edits a setting of the main window.
Edit ==
    /\ edits' = edits + 1
    /\ UNCHANGED <<errors, tick_job, stats_vars, window_vars>>
    /\ \/ \E raw \in RawTasks : SetActiveTask(raw)
       \/ \E v \in SpinValues : SetCurrentInterval(v)
       \/ \E m \in TargetValues : SetTarget(m)
       \/ TogglePrompt
       \/ ToggleAutoStop

\* The bounds of the model: rows appended plus settings edited plus failed
\* writes (weighted), and the elapsed time of a session.
InBounds ==
    /\ Len(log') + edits' + FailureWeight * errors' <= MaxWork
    /\ session_elapsed' <= MaxElapsed

\* A step that is no edit of a setting and ends without an exception.
NoEdit ==
    /\ UNCHANGED <<edits, errors, tick_job, stats_vars, window_vars>>
    /\ InBounds

\* A step in which a handler is left by the exception of a failing log write.
Raises ==
    /\ errors' = errors + 1
    /\ UNCHANGED <<edits, stats_vars, window_vars>>
    /\ InBounds

Next ==
    \/ Edit /\ InBounds
    \/ (\E d \in Deltas : Advance(d)) /\ NoEdit
    \/ _manual_interval_changed /\ NoEdit
    \/ start_session /\ NoEdit
    \/ stop_session /\ NoEdit
    \/ cancel_session /\ NoEdit
    \/ start_break /\ NoEdit
    \/ end_only /\ NoEdit
    \/ end_and_start /\ NoEdit
    \/ mark_procrastination /\ NoEdit
    \/ ProcrastinationCancelled /\ NoEdit
    \/ (\E r \in Reasons : ProcrastinationReason(r)) /\ NoEdit
    \/ _tick /\ NoEdit
    \/ do_break /\ NoEdit
    \/ do_continue /\ NoEdit
    \/ do_end /\ NoEdit
    \/ FinishedDismissed /\ NoEdit
    \/ CheckinYes /\ NoEdit
    \/ CheckinNo /\ NoEdit
    \/ CheckinDismissed /\ NoEdit
    \/ (\E r \in Reasons : CheckinOffReason(r)) /\ NoEdit
    \/ EndSessionWriteFails /\ Raises
    \/ StartWriteFails /\ Raises
    \/ EndBreakWriteFails /\ Raises
    \/ ProcrastinationWriteFails /\ Raises
    \/ CheckinWriteFails /\ Raises

Spec == Init /\ [][Next]_vars

\* ------------------------------------------------------ statistics engine
\* Rows a log file can hold: written by the timer, edited by hand, or left by
\* an older version.  Day 0 and day 1 are two days of one week.
FileRows ==
    { Row(TsText(0, 100), <<"stop">>, <<"W">>, IntText(1800), <<>>),
      Row(TsText(0, 50), <<"cancel">>, <<"W">>, IntText(900), <<>>),
      Row(TsText(0, 100), <<"session_complete">>, <<"W">>, IntText(1800), <<>>),
      Row(<<>>, <<"stop">>, <<"W">>, IntText(60), <<>>),
      Row(TsText(1, 10), <<"stop">>, <<"X">>, JunkText, <<>>),
      Row(TsText(1, 10), <<"stop", " ">>, <<" ", "W">>, IntText(600), <<>>),
      Row(TsText(1, 5), <<"stop">>, <<>>, EmptyText, <<>>),
      Row(TsText(0, 86400), <<"cancel">>, <<"X">>, JunkText, <<>>) }

\* Rows as _append_log writes them: now_iso(), a stripped task, an integer.
WrittenRows ==
    { r \in FileRows : /\ parse_ok(r.timestamp)
                       /\ r.session_seconds.kind = "int"
                       /\ Strip(r.task) = r.task
                       /\ Strip(r.event) = r.event }

\* Rows of sessions on day 0 and day 1: starts, procrastination marks with
\* the seconds into the session, a check-in, and the ends of sessions.
TimelineRows ==
    { Row(TsText(0, 10), <<"start">>, <<"W">>, IntText(0), <<>>),
      Row(TsText(0, 20), <<"start">>, <<"W">>, IntText(0), <<>>),
      Row(TsText(0, 30), <<"procrastination">>, <<"W">>, IntText(300),
          <<KV("interval_min", 5)>>),
      Row(TsText(0, 35), <<"procrastination">>, <<"W">>, IntText(400),
          <<KV("interval_min", 5)>>),
      Row(TsText(0, 32), <<"checkin_on_task">>, <<"W">>, IntText(120),
          <<KV("interval_min", 10)>>),
      Row(TsText(0, 40), <<"stop">>, <<"W">>, IntText(1800), <<>>),
      Row(TsText(1, 40), <<"stop">>, <<"X">>, IntText(600), <<>>),
      Row(TsText(0, 50), <<"cancel">>, <<"W">>, IntText(900), <<>>),
      Row(TsText(0, 60), <<"session_complete">>, <<"W">>, IntText(1200), <<>>) }

\* Rows of check-ins and marks with their notes, on day 0, day 1 and on
\* day 8, the Tuesday of the following week.
SummaryRows ==
    { Row(TsText(0, 60), <<"checkin_on_task">>, <<"W">>, IntText(600),
          <<KV("interval_min", 10)>>),
      Row(TsText(0, 61), <<"checkin_on_task">>, <<>>, IntText(600),
          <<KVJunk("interval_min"), KV("interval_min", 5)>>),
      Row(TsText(0, 70), <<"checkin_off_task">>, <<"W">>, IntText(900),
          <<Word("tired"), Word("|"), KV("target_min", 30), KV("interval_min", 5)>>),
      Row(TsText(0, 80), <<"procrastination">>, <<"X">>, IntText(300),
          <<KV("interval_min", 5)>>),
      Row(TsText(1, 20), <<"session_complete">>, <<"W">>, IntText(1800), <<>>),
      Row(TsText(1, 30), <<"break">>, <<"W">>, IntText(300), <<>>),
      Row(TsText(8, 60), <<"checkin_on_task">>, <<"W">>, IntText(600),
          <<KV("interval_min", 10)>>) }

Days == {0, 1}
\* the days a summary is asked for
SummaryDays == {0, 1, 8}
\* the anchor dates of a week: a Sunday, and the Tuesday after it
Anchors == {6, 8}

RECURSIVE FilesOver(_, _)
FilesOver(rows, n) ==
    IF n = 0 THEN {<<>>}
    ELSE {Append(f, r) : f \in FilesOver(rows, n - 1), r \in rows}
FilesOfLength(n) == FilesOver(FileRows, n)
FoundFiles == UNION {FilesOfLength(n) : n \in 0..MaxFileRows}
TimelineFiles == UNION {FilesOver(TimelineRows, n) : n \in 0..MaxFileRows}
SummaryFiles == UNION {FilesOver(SummaryRows, n) : n \in 0..MaxFileRows}

\* The record load builds of a row whose fields all parse.
EventOf(row) ==
    [dt |-> parse_ts(row.timestamp),
     day |-> day_key(parse_ts(row.timestamp)),
     event |-> Strip(row.event),
     task |-> Strip(row.task),
     secs |-> int_of(row.session_seconds),
     note |-> row.note,
     timestamp |-> row.timestamp]

\* The reading loop of load: a row whose timestamp does not parse is skipped;
\* int() of the session_seconds text is outside the try and ends the loop.
RECURSIVE ReadRows(_, _)
ReadRows(rows, acc) ==
    IF rows = <<>> THEN [raised |-> FALSE, events |-> acc]
    ELSE LET row == Head(rows)
         IN IF ~parse_ok(row.timestamp) THEN ReadRows(Tail(rows), acc)
            ELSE IF ~int_ok(row.session_seconds)
                 THEN [raised |-> TRUE, events |-> acc]
                 ELSE ReadRows(Tail(rows), Append(acc, EventOf(row)))

\* list.sort(key=dt): stable, ascending.
RECURSIVE InsertByDt(_, _)
InsertByDt(e, sorted) ==
    IF sorted = <<>> THEN <<e>>
    ELSE IF DtKey(Head(sorted).dt) <= DtKey(e.dt)
         THEN <<Head(sorted)>> \o InsertByDt(e, Tail(sorted))
         ELSE <<e>> \o sorted
RECURSIVE SortByDt(_)
SortByDt(evs) ==
    IF evs = <<>> THEN <<>>
    ELSE InsertByDt(evs[Len(evs)], SortByDt(SubSeq(evs, 1, Len(evs) - 1)))

\* Faulty variant of load: the cached events are not cleared first.
load_keep ==
    /\ loads < MaxLoads
    /\ loads' = loads + 1
    /\ LET r == IF log_exists THEN ReadRows(log_file, <<>>)
                ELSE [raised |-> FALSE, events |-> <<>>]
       IN /\ events' = IF r.raised THEN events \o r.events
                       ELSE SortByDt(events \o r.events)
          /\ result' = IF r.raised THEN Raised("load", <<>>)
                                  ELSE Returned("load", <<>>, <<>>)
    /\ UNCHANGED <<log_exists, log_file, app_vars, window_vars>>

load ==
    /\ loads < MaxLoads
    /\ loads' = loads + 1
    /\ LET r == IF log_exists THEN ReadRows(log_file, <<>>)
                ELSE [raised |-> FALSE, events |-> <<>>]
       IN /\ events' = IF r.raised THEN r.events ELSE SortByDt(r.events)
          /\ result' = IF r.raised THEN Raised("load", <<>>)
                                  ELSE Returned("load", <<>>, <<>>)
    /\ UNCHANGED <<log_exists, log_file, app_vars, window_vars>>

events_in_range(start_day, end_day) ==
    SelectSeq(events, LAMBDA e : start_day <= e.day /\ e.day <= end_day)

NoTask == <<"(no task)">>
SessionTask(e) == IF Strip(e.task) = <<>> THEN NoTask ELSE Strip(e.task)
NewTally(task) == [task |-> task, sessions |-> 0, total_secs |-> 0, cancels |-> 0]

\* What one stop or cancel event adds to the record of its task.
SessionTally_cancelcounts(rec, e) ==
    [rec EXCEPT !.sessions = @ + 1,
                !.total_secs = @ + e.secs,
                !.cancels = IF e.event = <<"cancel">> THEN @ + 1 ELSE @]
SessionTally(rec, e) ==
    IF e.event = <<"stop">>
    THEN [rec EXCEPT !.sessions = @ + 1, !.total_secs = @ + e.secs]
    ELSE [rec EXCEPT !.cancels = @ + 1]

\* The loop over the events: by is the dict in insertion order.
RECURSIVE TallySessions(_, _)
TallySessions(evs, by) ==
    IF evs = <<>> THEN by
    ELSE LET e == Head(evs)
             task == SessionTask(e)
             known == {i \in 1..Len(by) : by[i].task = task}
         IN IF e.event \notin {<<"stop">>, <<"cancel">>}
            THEN TallySessions(Tail(evs), by)
            ELSE IF known = {}
                 THEN TallySessions(Tail(evs),
                                    Append(by, SessionTally(NewTally(task), e)))
                 ELSE LET i == CHOOSE k \in known : TRUE
                      IN TallySessions(Tail(evs),
                                       [by EXCEPT ![i] = SessionTally(@, e)])

SessionRow(rec) ==
    [task |-> rec.task, sessions |-> rec.sessions, total_secs |-> rec.total_secs,
     avg |-> IF rec.sessions > 0 THEN Quotient(rec.total_secs, rec.sessions)
             ELSE NoAverage,
     cancels |-> rec.cancels]

\* rows.sort(key=(total_secs, sessions), reverse=True): stable, descending.
RowBefore(a, b) ==
    \/ a.total_secs > b.total_secs
    \/ a.total_secs = b.total_secs /\ a.sessions >= b.sessions
RECURSIVE InsertRow(_, _)
InsertRow(r, sorted) ==
    IF sorted = <<>> THEN <<r>>
    ELSE IF RowBefore(Head(sorted), r)
         THEN <<Head(sorted)>> \o InsertRow(r, Tail(sorted))
         ELSE <<r>> \o sorted
RECURSIVE SortRows(_)
SortRows(rows) ==
    IF rows = <<>> THEN <<>>
    ELSE InsertRow(rows[Len(rows)], SortRows(SubSeq(rows, 1, Len(rows) - 1)))

SessionRows(start_day, end_day) ==
    LET by == TallySessions(events_in_range(start_day, end_day), <<>>)
    IN SortRows([i \in 1..Len(by) |-> SessionRow(by[i])])

sessions_by_task_in_range(start_day, end_day) ==
    /\ result' = Returned("sessions_by_task_in_range", <<start_day, end_day>>,
                          SessionRows(start_day, end_day))
    /\ UNCHANGED <<log_exists, log_file, events, loads, app_vars,
                   window_vars>>

\* --- summary_for_day
\* safe_int_from_note: the value of the first token "key=..." of the note,
\* <<n>> when it is an integer and <<>> (None) when it is not or when the
\* note has no such token.
RECURSIVE safe_int_from_note(_, _)
safe_int_from_note(note, key) ==
    IF note = <<>> THEN <<>>
    ELSE IF Head(note).key = key
         THEN (IF Head(note).word = "" THEN <<Head(note).val>> ELSE <<>>)
         ELSE safe_int_from_note(Tail(note), key)
\* the minutes an event adds: `if interval:`
NoteMinutes(e) ==
    LET interval == safe_int_from_note(e.note, "interval_min")
    IN IF interval = <<>> THEN 0 ELSE interval[1]

events_for_day(d) == SelectSeq(events, LAMBDA e : e.day = d)

ZeroTally ==
    [on_min |-> 0, off_min |-> 0, checkins_on |-> 0, checkins_off |-> 0,
     procrastinations |-> 0, starts |-> 0, stops |-> 0, cancels |-> 0,
     completes |-> 0, breaks |-> 0]

\* Faulty variant of DayTally: session_complete is a complete only, and a
\* procrastination adds no minutes.
DayTally_plain(t, e) ==
    IF e.event = <<"checkin_on_task">>
    THEN [t EXCEPT !.checkins_on = @ + 1, !.on_min = @ + NoteMinutes(e)]
    ELSE IF e.event = <<"checkin_off_task">>
    THEN [t EXCEPT !.checkins_off = @ + 1, !.off_min = @ + NoteMinutes(e)]
    ELSE IF e.event = <<"procrastination">>
    THEN [t EXCEPT !.procrastinations = @ + 1]
    ELSE IF e.event = <<"start">> THEN [t EXCEPT !.starts = @ + 1]
    ELSE IF e.event = <<"stop">> THEN [t EXCEPT !.stops = @ + 1]
    ELSE IF e.event = <<"cancel">> THEN [t EXCEPT !.cancels = @ + 1]
    ELSE IF e.event = <<"session_complete">> THEN [t EXCEPT !.completes = @ + 1]
    ELSE IF e.event = <<"break">> THEN [t EXCEPT !.breaks = @ + 1]
    ELSE t
\* What one event adds to the tallies of its day.
DayTally(t, e) ==
    IF e.event = <<"checkin_on_task">>
    THEN [t EXCEPT !.checkins_on = @ + 1, !.on_min = @ + NoteMinutes(e)]
    ELSE IF e.event = <<"checkin_off_task">>
    THEN [t EXCEPT !.checkins_off = @ + 1, !.off_min = @ + NoteMinutes(e)]
    ELSE IF e.event = <<"procrastination">>
    THEN [t EXCEPT !.procrastinations = @ + 1, !.off_min = @ + NoteMinutes(e)]
    ELSE IF e.event = <<"start">> THEN [t EXCEPT !.starts = @ + 1]
    ELSE IF e.event = <<"stop">> THEN [t EXCEPT !.stops = @ + 1]
    ELSE IF e.event = <<"cancel">> THEN [t EXCEPT !.cancels = @ + 1]
    ELSE IF e.event = <<"session_complete">>
    THEN [t EXCEPT !.completes = @ + 1, !.stops = @ + 1]
    ELSE IF e.event = <<"break">> THEN [t EXCEPT !.breaks = @ + 1]
    ELSE t

RECURSIVE TallyDay(_, _)
TallyDay(evs, t) ==
    IF evs = <<>> THEN t ELSE TallyDay(Tail(evs), DayTally(t, Head(evs)))

\* Faulty variant of RatioOn: 0 when there are no minutes.
RatioOn_zero(on_min, total) ==
    IF total > 0 THEN Quotient(on_min, total) ELSE <<0, 1>>
RatioOn(on_min, total) ==
    IF total > 0 THEN Quotient(on_min, total) ELSE NoAverage

Summary(d) ==
    LET t == TallyDay(events_for_day(d), ZeroTally)
        total == t.on_min + t.off_min
    IN [day |-> d, on_min |-> t.on_min, off_min |-> t.off_min, total_min |-> total,
        ratio_on |-> RatioOn(t.on_min, total),
        checkins_on |-> t.checkins_on, checkins_off |-> t.checkins_off,
        procrastinations |-> t.procrastinations, starts |-> t.starts,
        stops |-> t.stops, cancels |-> t.cancels, completes |-> t.completes,
        breaks |-> t.breaks]

summary_for_day(d) ==
    /\ result' = Returned("summary_for_day", <<d>>, Summary(d))
    /\ UNCHANGED <<log_exists, log_file, events, loads, app_vars,
                   window_vars>>

\* --- week_summary
\* date.weekday() of a day counted from a Monday
weekday(d) == d % 7
\* Faulty variant of monday_of: the week starts at the anchor.
monday_of_anchor(d) == d
monday_of(d) == d - weekday(d)
week_days(anchor) == [i \in 1..7 |-> monday_of(anchor) + (i - 1)]
WeekSummary(anchor) ==
    [days |-> week_days(anchor),
     per_day |-> [i \in 1..7 |-> Summary(week_days(anchor)[i])]]
week_summary(anchor) ==
    /\ result' = Returned("week_summary", <<anchor>>, WeekSummary(anchor))
    /\ UNCHANGED <<log_exists, log_file, events, loads, app_vars,
                   window_vars>>

\* --- on_off_by_task_in_range
\* the task names of the rows, in the order sorted() gives them
TaskOrder == <<NoTask, <<"W">>, <<"X">>>>
OffKinds == {<<"checkin_off_task">>, <<"procrastination">>}
\* on_by[task] / off_by[task]: the minutes of the events of these kinds
MinutesOf(evs, kinds, task) ==
    SumSeq([k \in 1..Len(evs) |->
              IF evs[k].event \in kinds /\ SessionTask(evs[k]) = task
              THEN NoteMinutes(evs[k]) ELSE 0])
\* the keys of on_by and off_by
HasMinutes(evs, kinds, task) ==
    \E k \in 1..Len(evs) : /\ evs[k].event \in kinds
                            /\ SessionTask(evs[k]) = task
                            /\ NoteMinutes(evs[k]) # 0
OnOffRow(evs, task) ==
    LET onm == MinutesOf(evs, {<<"checkin_on_task">>}, task)
        offm == MinutesOf(evs, OffKinds, task)
    IN [task |-> task, on_min |-> onm, off_min |-> offm, total |-> onm + offm,
        on_pct |-> IF onm + offm # 0 THEN Quotient(onm, onm + offm) ELSE NoAverage]
\* rows.sort(key=(total, on_min), reverse=True): stable, descending.
OnOffBefore(a, b) ==
    \/ a.total > b.total
    \/ a.total = b.total /\ a.on_min >= b.on_min
RECURSIVE InsertOnOff(_, _)
InsertOnOff(r, sorted) ==
    IF sorted = <<>> THEN <<r>>
    ELSE IF OnOffBefore(Head(sorted), r)
         THEN <<Head(sorted)>> \o InsertOnOff(r, Tail(sorted))
         ELSE <<r>> \o sorted
RECURSIVE SortOnOff(_)
SortOnOff(rows) ==
    IF rows = <<>> THEN <<>>
    ELSE InsertOnOff(rows[Len(rows)], SortOnOff(SubSeq(rows, 1, Len(rows) - 1)))
OnOffRows(start_day, end_day) ==
    LET evs == events_in_range(start_day, end_day)
        tasks_sorted ==
            SelectSeq(TaskOrder,
                      LAMBDA t : \/ HasMinutes(evs, {<<"checkin_on_task">>}, t)
                                 \/ HasMinutes(evs, OffKinds, t))
    IN SortOnOff([k \in 1..Len(tasks_sorted) |-> OnOffRow(evs, tasks_sorted[k])])
on_off_by_task_in_range(start_day, end_day) ==
    /\ result' = Returned("on_off_by_task_in_range", <<start_day, end_day>>,
                          OnOffRows(start_day, end_day))
    /\ UNCHANGED <<log_exists, log_file, events, loads, app_vars,
                   window_vars>>

\* --- export_current_week_csv
\* str() of an integer, as the csv writer writes the seconds
StrOfInt(n) == IntText(n)
\* The rows of the "Events" section of the exported file; the sections above
\* it are computed by week_summary, on_off_by_task_in_range and
\* session_stats_in_range and do not enter the rows.
ExportedEvents(today) ==
    LET evs == events_in_range(monday_of(today), monday_of(today) + 6)
    IN [k \in 1..Len(evs) |->
          Row(evs[k].timestamp, evs[k].event, evs[k].task, StrOfInt(evs[k].secs),
              evs[k].note)]
\* The user chooses a path and the file is written.
export_current_week_csv(today) ==
    /\ result' = Returned("export_current_week_csv", <<today>>, ExportedEvents(today))
    /\ UNCHANGED <<log_exists, log_file, events, loads, app_vars,
                   window_vars>>

\* --- session_stats_in_range
Boundary == {<<"stop">>, <<"cancel">>, <<"start">>}

\* The first inner loop: from position j forward to the first
\* procrastination, a boundary, or the end of the list.
RECURSIVE ScanFirst(_, _)
ScanFirst(evs, j) ==
    IF j > Len(evs) \/ evs[j].event \in Boundary THEN [j |-> j, first |-> <<>>]
    ELSE IF evs[j].event = <<"procrastination">>
         THEN [j |-> j, first |-> <<evs[j].secs>>]
         ELSE ScanFirst(evs, j + 1)
\* The second inner loop: forward to the boundary or the end of the list.
RECURSIVE SkipToBoundary(_, _)
SkipToBoundary(evs, j) ==
    IF j > Len(evs) \/ evs[j].event \in Boundary THEN j
    ELSE SkipToBoundary(evs, j + 1)
\* The outer loop from position i: the list tt_first.
RECURSIVE TimesToFirst(_, _)
TimesToFirst(evs, i) ==
    IF i > Len(evs) THEN <<>>
    ELSE IF evs[i].event # <<"start">> THEN TimesToFirst(evs, i + 1)
         ELSE LET scan == ScanFirst(evs, i + 1)
                  j == SkipToBoundary(evs, scan.j)
              IN scan.first \o TimesToFirst(evs, IF j > i THEN j + 1 ELSE i + 1)

\* Faulty variant of StopSeconds: the seconds of every session end.
StopSeconds_allends(ends) ==
    [k \in 1..Len(ends) |-> Max(0, ends[k].secs)]
\* The seconds averaged into avg_secs.
StopSeconds(ends) ==
    LET stops == SelectSeq(ends, LAMBDA e : e.event = <<"stop">>)
    IN [k \in 1..Len(stops) |-> Max(0, stops[k].secs)]

SessionStats(start_day, end_day) ==
    LET evs == events_in_range(start_day, end_day)
        ends == SelectSeq(evs, LAMBDA e : e.event \in {<<"stop">>, <<"cancel">>})
        cancels == SelectSeq(ends, LAMBDA e : e.event = <<"cancel">>)
    IN [avg_secs |-> Mean(StopSeconds(ends)),
        cancel_rate |-> IF ends # <<>> THEN Quotient(Len(cancels), Len(ends))
                        ELSE NoAverage,
        avg_tt |-> Mean(TimesToFirst(evs, 1))]

session_stats_in_range(start_day, end_day) ==
    /\ result' = Returned("session_stats_in_range", <<start_day, end_day>>,
                          SessionStats(start_day, end_day))
    /\ UNCHANGED <<log_exists, log_file, events, loads, app_vars,
                   window_vars>>

\* Faulty variant of StatsAppend: the file is opened with "w".
StatsAppend_rewrite(row) ==
    /\ log_exists
    /\ Len(log_file) < MaxFileRows
    /\ log_file' = <<row>>
    /\ loads' = 0
    /\ UNCHANGED <<log_exists, events, result, app_vars, window_vars>>

\* The timer appends a row to the file the engine reads; the timer has made
\* sure of the file and its header when it was constructed.
StatsAppend(row) ==
    /\ log_exists
    /\ Len(log_file) < MaxFileRows
    /\ log_file' = Append(log_file, row)
    /\ loads' = 0
    /\ UNCHANGED <<log_exists, events, result, app_vars, window_vars>>

\* The statistics engine over a log file found on disk, the timer window idle
\* with no saved profiles.
EngineInit(files) ==
    /\ AppInit
    /\ tasks = [t \in {} |-> NewProfile]
    /\ log_exists \in BOOLEAN
    /\ log_file \in files
    /\ ~log_exists => log_file = <<>>
    /\ events = <<>>
    /\ result = NoResult
    /\ loads = 0

\* Loading, and the sessions of each task.
StatsInit == EngineInit(FoundFiles)
StatsNext ==
    \/ \E row \in WrittenRows : StatsAppend(row)
    \/ load
    \/ \E start_day \in Days, end_day \in Days :
          sessions_by_task_in_range(start_day, end_day)
StatsSpec == StatsInit /\ [][StatsNext]_vars

\* The statistics of the sessions of a range.
TimelineInit == EngineInit(TimelineFiles)
TimelineNext ==
    \/ \E row \in WrittenRows : StatsAppend(row)
    \/ load
    \/ \E start_day \in Days, end_day \in Days :
          session_stats_in_range(start_day, end_day)
TimelineSpec == TimelineInit /\ [][TimelineNext]_vars

\* The summaries of days and weeks, and the minutes of each task.
SummaryInit == EngineInit(SummaryFiles)
SummaryNext ==
    \/ \E row \in WrittenRows : StatsAppend(row)
    \/ load
    \/ \E d \in SummaryDays : summary_for_day(d)
    \/ \E anchor \in Anchors : week_summary(anchor)
    \/ \E start_day \in Days, end_day \in Days :
          on_off_by_task_in_range(start_day, end_day)
SummarySpec == SummaryInit /\ [][SummaryNext]_vars

\* The export of the current week.
ExportInit == EngineInit(FoundFiles)
ExportNext ==
    \/ \E row \in WrittenRows : StatsAppend(row)
    \/ load
    \/ \E today \in Anchors : export_current_week_csv(today)
ExportSpec == ExportInit /\ [][ExportNext]_vars

\* Every call of the engine, from a log that is missing or holds the header
\* only.
EmptyLogInit == EngineInit({<<>>})
EmptyLogNext ==
    \/ \E row \in WrittenRows : StatsAppend(row)
    \/ load
    \/ \E d \in SummaryDays : summary_for_day(d)
    \/ \E anchor \in Anchors : week_summary(anchor)
    \/ \E start_day \in Days, end_day \in Days :
          on_off_by_task_in_range(start_day, end_day)
    \/ \E start_day \in Days, end_day \in Days :
          sessions_by_task_in_range(start_day, end_day)
    \/ \E start_day \in Days, end_day \in Days :
          session_stats_in_range(start_day, end_day)
EmptyLogSpec == EmptyLogInit /\ [][EmptyLogNext]_vars

\* ------------------------------------------------- the check-in switch
\* The timer with "Enable check-ins" as the only setting the user edits: a
\* session is started, runs, is marked and stopped with the check-ins on or
\* off.  One row more than in Spec fits into the log.
PromptBounds ==
    /\ Len(log') + edits' <= MaxWork + 1
    /\ edits' <= 1
    /\ session_elapsed' <= MaxElapsed

PromptStep ==
    /\ UNCHANGED <<edits, errors, tick_job, stats_vars, window_vars>>
    /\ PromptBounds

PromptNext ==
    \/ TogglePrompt /\ edits' = edits + 1 /\ UNCHANGED <<errors, tick_job, stats_vars, window_vars>>
          /\ PromptBounds
    \/ (\E d \in Deltas : Advance(d)) /\ PromptStep
    \/ start_session /\ PromptStep
    \/ stop_session /\ PromptStep
    \/ mark_procrastination /\ PromptStep
    \/ ProcrastinationCancelled /\ PromptStep
    \/ (\E r \in Reasons : ProcrastinationReason(r)) /\ PromptStep
    \/ _tick /\ PromptStep
    \/ do_end /\ PromptStep
    \/ FinishedDismissed /\ PromptStep
    \/ CheckinYes /\ PromptStep
    \/ CheckinNo /\ PromptStep
    \/ CheckinDismissed /\ PromptStep
    \/ (\E r \in Reasons : CheckinOffReason(r)) /\ PromptStep

PromptSpec == Init /\ [][PromptNext]_vars

\* ------------------------------------------------------ the running timer
\* A session is followed while time advances: the clock only moves forward,
\* half an hour at a time, the tick is scheduled again every 200 ms (weak
\* fairness of _tick), and a session-finished dialog is closed (weak
\* fairness of its close box unless a choice is made).  The user may start,
\* stop, override the interval and answer or dismiss the check-ins.
LiveHorizon == Clock0 + MaxSteps * Step

TimePasses ==
    /\ clock + Step <= LiveHorizon
    /\ clock' = clock + Step
    /\ UNCHANGED <<active_task, current_interval_min, config_vars, session_vars,
                   break_vars, tasks, log, stack, in_tick>>

LiveStep ==
    /\ UNCHANGED <<edits, errors, tick_job, stats_vars, window_vars>>
    /\ Len(log') <= MaxWork + 1

LiveNext ==
    \/ TimePasses /\ LiveStep
    \/ _tick /\ LiveStep
    \/ start_session /\ LiveStep
    \/ stop_session /\ LiveStep
    \/ _manual_interval_changed /\ LiveStep
    \/ FinishedDismissed /\ LiveStep
    \/ do_continue /\ LiveStep
    \/ CheckinYes /\ LiveStep
    \/ CheckinNo /\ LiveStep
    \/ CheckinDismissed /\ LiveStep
    \/ (\E r \in Reasons : CheckinOffReason(r)) /\ LiveStep

LiveSpec ==
    /\ Init
    /\ [][LiveNext]_vars
    /\ WF_vars(TimePasses /\ LiveStep)
    /\ WF_vars(_tick /\ LiveStep)
    /\ WF_vars(FinishedDismissed /\ LiveStep)

\* ------------------------------------------------------ the debounced jobs
\* The window is resized, notes are typed, days are selected and a refresh
\* is asked for, while the timer is idle.  The handlers Tk runs from its
\* timer queue run when their time has come; the event loop is not held up
\* for ever (weak fairness of the passing of time and of each handler).
timer_vars == <<active_task, current_interval_min, config_vars, session_vars,
                break_vars, tasks, log, clock, stack, in_tick, edits, tick_job>>

\* Faulty variant of after_cancel: the handler stays in the queue.
after_cancel_kept(queue, id) == queue

\* after_cancel(id) guarded by "is not None": the handler leaves the queue.
after_cancel(queue, id) == {t \in queue : t.id # id}

\* The debounce of the three jobs: cancel the handler of the field job,
\* then after(delay, handler); the new id is after_id + 1.
Schedule(j, job) ==
    /\ requests < MaxRequests
    /\ requests' = requests + 1
    /\ after_id' = after_id + 1
    /\ after_queue' = after_cancel(after_queue, job)
                         \cup {[id |-> after_id + 1, job |-> j, left |-> Delay(j)]}
    /\ quiet' = [quiet EXCEPT ![j] = 0]

\* the handlers of job j whose time has come
Due(j) == {t \in after_queue : t.job = j /\ t.left = 0}

\* 200 ms pass.
Pass ==
    /\ after_queue' = {[t EXCEPT !.left = Max(0, @ - 1)] : t \in after_queue}
    /\ quiet' = [j \in Jobs |-> Min(Delay(j), quiet[j] + 1)]
    /\ UNCHANGED <<_geom_save_job, _notes_save_job, _refresh_job, after_id, requests,
                   geometry, window_geometry, selected_day, notes_text, notes_map,
                   app_vars, stats_vars>>

\* <Configure>: the window has been moved or resized to g.
_on_window_configure(g) ==
    /\ geometry' = g
    /\ Schedule("geometry", _geom_save_job)
    /\ _geom_save_job' = after_id + 1
    /\ UNCHANGED <<_notes_save_job, _refresh_job, window_geometry, selected_day,
                   notes_text, notes_map, app_vars, stats_vars>>

_save_window_geometry ==
    /\ \E t \in Due("geometry") : after_queue' = after_queue \ {t}
    /\ _geom_save_job' = None
    /\ window_geometry' = geometry
    /\ UNCHANGED <<_notes_save_job, _refresh_job, after_id, quiet, requests, geometry,
                   selected_day, notes_text, notes_map, app_vars, stats_vars>>

\* <KeyRelease> in the notes widget, which then holds txt.
_schedule_save_current_note(txt) ==
    /\ notes_text' = txt
    /\ Schedule("notes", _notes_save_job)
    /\ _notes_save_job' = after_id + 1
    /\ UNCHANGED <<_geom_save_job, _refresh_job, geometry, window_geometry,
                   selected_day, notes_map, app_vars, stats_vars>>

\* _load_current_note: the text the widget is filled with, notes_map.get(ds, "")
_load_current_note(ds) == notes_map[ds]

\* A day of the calendar is clicked.
_select_day(ds) ==
    /\ selected_day' = ds
    /\ notes_text' = _load_current_note(ds)
    /\ UNCHANGED <<job_vars, geometry, window_geometry, notes_map, app_vars,
                   stats_vars>>

_save_current_note ==
    /\ \E t \in Due("notes") : after_queue' = after_queue \ {t}
    /\ _notes_save_job' = None
    /\ notes_map' = [notes_map EXCEPT ![selected_day] = RStrip(notes_text)]
    /\ UNCHANGED <<_geom_save_job, _refresh_job, after_id, quiet, requests, geometry,
                   window_geometry, selected_day, notes_text, app_vars, stats_vars>>

\* The Refresh button.
_request_refresh ==
    /\ Schedule("refresh", _refresh_job)
    /\ _refresh_job' = after_id + 1
    /\ UNCHANGED <<_geom_save_job, _notes_save_job, geometry, window_geometry,
                   selected_day, notes_text, notes_map, app_vars, stats_vars>>

\* _refresh_stats: the field is cleared, then stats.load() runs; an
\* exception of load leaves the handler.
_refresh_stats ==
    /\ \E t \in Due("refresh") : after_queue' = after_queue \ {t}
    /\ _refresh_job' = None
    /\ LET r == IF log_exists THEN ReadRows(log_file, <<>>)
                ELSE [raised |-> FALSE, events |-> <<>>]
       IN /\ events' = IF r.raised THEN r.events ELSE SortByDt(r.events)
          /\ errors' = IF r.raised THEN errors + 1 ELSE errors
    /\ loads' = loads + 1
    /\ UNCHANGED <<_geom_save_job, _notes_save_job, after_id, quiet, requests, geometry,
                   window_geometry, selected_day, notes_text, notes_map, timer_vars,
                   log_exists, log_file, result>>

\* The log holds one stop row: one that load reads, or one it fails on.
WindowFiles ==
    {f \in FilesOfLength(1) : f[1].event = <<"stop">> /\ parse_ok(f[1].timestamp)}
WindowInit == EngineInit(WindowFiles)

WindowNext ==
    \/ Pass
    \/ \E g \in Geometries : _on_window_configure(g)
    \/ _save_window_geometry
    \/ \E txt \in NoteTexts : _schedule_save_current_note(txt)
    \/ \E ds \in NoteDays : _select_day(ds)
    \/ _save_current_note
    \/ _request_refresh
    \/ _refresh_stats

WindowSpec ==
    /\ WindowInit
    /\ [][WindowNext]_vars
    /\ WF_vars(Pass)
    /\ WF_vars(_save_window_geometry)
    /\ WF_vars(_save_current_note)
    /\ WF_vars(_refresh_stats)

\* ==================================================================== claims
\* Shorthands for the statements below.
ActiveTask == Strip(active_task)
SessionActive == Truthy(session_start_ts)
LastRow == log[Len(log)]
\* the profile of the active task as _task_state hands it out before a step
ProfileBefore == _task_state(tasks, ActiveTask)[ActiveTask]
\* the same profile after the step
ProfileAfter == tasks'[ActiveTask]
\* the rows a step appended
NewRows == SubSeq(log', Len(log) + 1, Len(log'))
\* a row of lg is an interval_adapt event
IsAdapt(row) == row.event \in {"interval_adapt_up", "interval_adapt_down"}
AdaptRows(rows) == {i \in 1..Len(rows) : IsAdapt(rows[i])}

\* An answered check-in.
OnTaskResponse == CheckinYes
OffTaskResponse == \E r \in Reasons : CheckinOffReason(r)
\* An answered procrastination prompt.
ProcrastinationMark == \E r \in Reasons : ProcrastinationReason(r)
\* A response the adaptive engine is run for.
Adaptation == OnTaskResponse \/ OffTaskResponse \/ ProcrastinationMark

\* C1: after any sequence of starts, on-task and off-task check-ins,
\* procrastination marks and manual overrides, the interval_min of every
\* task profile is an integer in [MIN_INTERVAL, MAX_INTERVAL] = [3, 30].
C1_IntervalInRange ==
    \A t \in DOMAIN tasks : tasks[t].interval_min \in MIN_INTERVAL..MAX_INTERVAL

\* The spin box holds 45 and "Apply to task" has stored the clamped 30.
C1_Witness ==
    /\ log # <<>>
    /\ LastRow.event = "interval_set"
    /\ current_interval_min = 45
    /\ ActiveTask \in DOMAIN tasks
    /\ tasks[ActiveTask].interval_min = MAX_INTERVAL

\* C2 (as the code has it): an on-task response keeps the interval of the
\* task in [3, 30] and never lowers it; it raises it only when it is the
\* second consecutive on-task response (the stored streak is 1), and then to
\* min(30, v + 2): by +2, except by +1 from 29.
C2_OnTaskStep ==
    [][(OnTaskResponse /\ ActiveTask # <<>>) =>
          /\ ProfileAfter.interval_min \in MIN_INTERVAL..MAX_INTERVAL
          /\ ProfileAfter.interval_min >= ProfileBefore.interval_min
          /\ ProfileAfter.interval_min > ProfileBefore.interval_min =>
                /\ ProfileBefore.yes_streak + 1 = STREAK_FOR_STEPUP
                /\ ProfileAfter.interval_min =
                      Min(MAX_INTERVAL, ProfileBefore.interval_min + STEP_UP)
          /\ ProfileBefore.yes_streak + 1 < STREAK_FOR_STEPUP =>
                ProfileAfter.interval_min = ProfileBefore.interval_min]_vars

\* C2 (as stated): every increase of the interval by an on-task response is
\* by exactly +2.
C2_EveryIncreaseIsTwo ==
    [][(OnTaskResponse /\ ActiveTask # <<>>
          /\ ProfileAfter.interval_min > ProfileBefore.interval_min) =>
          ProfileAfter.interval_min = ProfileBefore.interval_min + STEP_UP]_vars

\* A second consecutive on-task response has raised an interval to 30 and
\* logged the step.
C2_Witness ==
    /\ Len(log) >= 2
    /\ LastRow.event = "interval_adapt_up"
    /\ log[Len(log) - 1].event = "checkin_on_task"
    /\ ActiveTask \in DOMAIN tasks
    /\ log[Len(log) - 1].note = <<KV("target_min", 30), KV("interval_min", 29)>>
    /\ tasks[ActiveTask] = Profile(MAX_INTERVAL, 0)

\* C3: an off-task check-in response and a procrastination mark on a task
\* with interval v set the interval of that task to max(3, v - 3) and its
\* yes_streak to 0, whatever the streak was.  (The task is the one named in
\* the task entry; an empty entry names no task.)
C3_OffTaskStep ==
    [][((OffTaskResponse \/ ProcrastinationMark) /\ ActiveTask # <<>>) =>
          ProfileAfter = Profile(Max(MIN_INTERVAL, ProfileBefore.interval_min - STEP_DOWN),
                                 0)]_vars

\* An off-task response has lowered an interval from 29 (streak 1) to 26.
C3_Witness ==
    /\ Len(log) >= 2
    /\ LastRow.event = "interval_adapt_down"
    /\ log[Len(log) - 1].event \in {"checkin_off_task", "procrastination"}
    /\ ActiveTask \in DOMAIN tasks
    /\ tasks[ActiveTask] = Profile(26, 0)

\* C4: an adaptation that changes a task's interval_min appends exactly one
\* interval_adapt_up (increase) or interval_adapt_down (decrease) row, after
\* the row of the response, whose note carries the new interval_min; an
\* on-task response that only increments the streak appends no
\* interval_adapt row.
C4_AdaptLogged ==
    [][(Adaptation /\ ActiveTask # <<>>) =>
          /\ ProfileAfter.interval_min # ProfileBefore.interval_min =>
                /\ Len(NewRows) = 2
                /\ AdaptRows(NewRows) = {2}
                /\ NewRows[2].event =
                      (IF ProfileAfter.interval_min > ProfileBefore.interval_min
                       THEN "interval_adapt_up" ELSE "interval_adapt_down")
                /\ NewRows[2].note = <<KV("interval_min", ProfileAfter.interval_min)>>
          /\ (OnTaskResponse /\ ProfileBefore.yes_streak + 1 < STREAK_FOR_STEPUP) =>
                /\ Len(NewRows) = 1
                /\ AdaptRows(NewRows) = {}]_vars

\* A procrastination mark at the default 10 has been logged with its step
\* down to 7.
C4_Witness ==
    /\ Len(log) >= 2
    /\ LastRow.event = "interval_adapt_down"
    /\ LastRow.note = <<KV("interval_min", 7)>>
    /\ log[Len(log) - 1].event = "procrastination"
    /\ ActiveTask \in DOMAIN tasks
    /\ tasks[ActiveTask] = Profile(7, 0)

\* C5: a session and a break are never active together.
C5_SessionXorBreak == ~(SessionActive /\ on_break)

\* A break begun from a running session: the stop row is the last row and
\* the break is on.
C5_Witness ==
    /\ on_break
    /\ ~SessionActive
    /\ log # <<>>
    /\ LastRow.event = "stop"
    /\ TopIs("break")

\* C6 (as stated): every step from Running to OnBreak, by the Break command
\* or by "Break" in the session-finished dialog, appends a stop row carrying
\* the whole elapsed seconds of the session.
C6_StopBeforeBreak ==
    [][(SessionActive /\ ~on_break /\ on_break') =>
          /\ Len(NewRows) = 1
          /\ NewRows[1].event = "stop"
          /\ NewRows[1].session_seconds = session_elapsed \div 2]_vars

\* C7: start with a non-empty trimmed task leaves the session Running with
\* elapsed 0 and next_prompt_at = interval_min * 60 of the task's profile and
\* appends exactly one start row for the trimmed task; start with an empty or
\* blank task appends nothing, creates no profile and changes no timer state.
C7_Start ==
    [][start_session =>
          IF ActiveTask # <<>>
          THEN /\ SessionActive'
               /\ session_elapsed' = 0
               /\ ActiveTask \in DOMAIN tasks'
               /\ next_prompt_at' = tasks'[ActiveTask].interval_min * 60 * 2
               /\ tasks'[ActiveTask] = ProfileBefore
               /\ Len(NewRows) = 1
               /\ NewRows[1].event = "start"
               /\ NewRows[1].task = ActiveTask
               /\ NewRows[1].session_seconds = 0
               /\ ~on_break'
          ELSE UNCHANGED <<log, tasks, session_vars, break_vars,
                           current_interval_min>>]_vars

\* The entry held "Deep work " and a session for "Deep work" has just been
\* started from the
\* stored interval 29.
C7_Witness ==
    /\ active_task = InitialTask \o <<" ">>
    /\ SessionActive
    /\ session_elapsed = 0
    /\ next_prompt_at = 29 * 60 * 2
    /\ log # <<>>
    /\ LastRow.event = "start"
    /\ LastRow.task = InitialTask

\* C8: stop and cancel in a running session append exactly one row of their
\* own kind whose session_seconds is the whole-second elapsed time, reset
\* elapsed to 0 and leave the timer Idle with no next_prompt_at; with no
\* session running they append nothing and change nothing.
C8_StopCancel ==
    [][(stop_session \/ cancel_session) =>
          IF SessionActive
          THEN /\ Len(NewRows) = 1
               /\ stop_session => NewRows[1].event = "stop"
               /\ cancel_session => NewRows[1].event = "cancel"
               /\ NewRows[1].session_seconds = session_elapsed \div 2
               /\ NewRows[1].task = ActiveTask
               /\ ~SessionActive'
               /\ session_elapsed' = 0
               /\ next_prompt_at' = None
               /\ ~on_break'
          ELSE UNCHANGED <<log, tasks, session_vars, break_vars>>]_vars

\* A session that ran for 1800 seconds has been cancelled.
C8_Witness ==
    /\ log # <<>>
    /\ LastRow.event = "cancel"
    /\ LastRow.session_seconds = 1800
    /\ ~SessionActive
    /\ session_elapsed = 0
    /\ next_prompt_at = None
    /\ ~on_break

\* C9: ending an active break appends exactly one break row (first of the
\* rows of the step) whose session_seconds is the elapsed break time in whole
\* seconds, 0 if the clock went backward, and whose task is the task captured
\* when the break began; "End break" leaves the timer Idle; and _end_break
\* appends nothing when no break is active.
C9_EndBreak ==
    /\ [](~on_break => BreakLog = log)
    /\ [][((end_only \/ end_and_start) /\ on_break) =>
             /\ Len(NewRows) >= 1
             /\ NewRows[1].event = "break"
             /\ NewRows[1].session_seconds =
                   (IF clock >= break_start_ts THEN (clock - break_start_ts) \div 2 ELSE 0)
             /\ NewRows[1].session_seconds >= 0
             /\ NewRows[1].task = break_task_for_log
             /\ {i \in 1..Len(NewRows) : NewRows[i].event = "break"} = {1}
             /\ ~on_break'
             /\ end_only => (Len(NewRows) = 1 /\ ~SessionActive')]_vars

\* A break of 1800 seconds has been ended: its row carries the duration and
\* the captured task.
C9_Witness ==
    /\ log # <<>>
    /\ LastRow.event = "break"
    /\ LastRow.session_seconds = 1800
    /\ LastRow.task = InitialTask
    /\ clock = Clock0 + Step
    /\ ~on_break
    /\ ~SessionActive
    /\ stack = <<>>

\* C10 (as stated): whenever an on-task response, an off-task response, a
\* procrastination mark or a manual override is recorded while a session is
\* active, next_prompt_at becomes the elapsed time of the session plus 60
\* times an interval: the new interval of the task when the entry names one.
C10_Rescheduled ==
    [][((Adaptation \/ _manual_interval_changed) /\ SessionActive /\ log' # log) =>
          IF ActiveTask # <<>>
          THEN next_prompt_at' = session_elapsed + ProfileAfter.interval_min * 60 * 2
          ELSE \E iv \in MIN_INTERVAL..MAX_INTERVAL :
                  next_prompt_at' = session_elapsed + iv * 60 * 2]_vars

\* C11: a manual override with requested value r on a non-empty task sets the
\* task's interval_min to min(30, max(3, r)) and its yes_streak to 0 and
\* appends one interval_set row whose note carries the clamped value; with an
\* empty task it changes nothing and appends nothing.
C11_ManualOverride ==
    [][_manual_interval_changed =>
          IF ActiveTask # <<>>
          THEN LET r == current_interval_min
                   v == IF r < 3 THEN 3 ELSE IF r > 30 THEN 30 ELSE r
               IN /\ ProfileAfter = Profile(v, 0)
                  /\ Len(NewRows) = 1
                  /\ NewRows[1].event = "interval_set"
                  /\ NewRows[1].task = ActiveTask
                  /\ NewRows[1].note = <<KV("interval_min", v)>>
                  /\ \A t \in DOMAIN tasks : tasks'[t] = IF t = ActiveTask
                                                         THEN ProfileAfter ELSE tasks[t]
          ELSE UNCHANGED <<log, tasks, session_vars, break_vars,
                           current_interval_min>>]_vars

\* The spin box held 1 and the override stored the clamped 3 with streak 0.
C11_Witness ==
    /\ log # <<>>
    /\ LastRow.event = "interval_set"
    /\ LastRow.note = <<KV("interval_min", MIN_INTERVAL)>>
    /\ current_interval_min = 1
    /\ ActiveTask \in DOMAIN tasks
    /\ tasks[ActiveTask] = Profile(MIN_INTERVAL, 0)

C14_AutoStopAsks ==
    /\ [](TopIs("finished") => (SessionActive /\ in_tick))
    /\ [][_tick =>
             /\ UNCHANGED <<log, session_start_ts, next_prompt_at, tasks, break_vars>>
             /\ (SessionActive /\ auto_stop_enabled
                    /\ session_elapsed' >= target_duration_min * 60 * 2) =>
                   /\ stack' = Append(stack, stack'[Len(stack')])
                   /\ stack'[Len(stack')].kind = "finished"]_vars
    /\ [][FinishedDismissed =>
             UNCHANGED <<log, session_start_ts, session_elapsed, next_prompt_at>>]_vars

\* The session-finished dialog is open on a session that has reached its
\* target: the session still runs and the log holds only its start row.
C14_Witness ==
    /\ TopIs("finished")
    /\ SessionActive
    /\ auto_stop_enabled
    /\ session_elapsed >= target_duration_min * 60 * 2
    /\ Len(log) = 1
    /\ LastRow.event = "start"

\* C15 (as stated): wall-clock time that passes while a check-in or
\* session-finished dialog opened by the tick is pending is not added to the
\* elapsed time of a session that continues.  The next tick adds
\* max(0, clock - last_tick), so the time in the dialog stays out of the
\* elapsed time exactly if, when the tick returns from the dialog, last_tick
\* is not behind the clock.
C15_PromptTimeExcluded ==
    [][(in_tick /\ ~in_tick' /\ SessionActive /\ SessionActive') =>
          last_tick' >= clock]_vars

\* A handler that writes to the log is left by an exception.
WriteFails ==
    \/ EndSessionWriteFails
    \/ StartWriteFails
    \/ EndBreakWriteFails
    \/ ProcrastinationWriteFails
    \/ CheckinWriteFails

\* C16 (as stated): a failing log append is swallowed: the operation still
\* completes its in-memory transition (stop and cancel leave the timer Idle
\* with elapsed reset, an answered check-in leaves the tick running) and no
\* error propagates to the caller.
C16_WriteFailureSwallowed ==
    [][WriteFails =>
          /\ errors' = errors
          /\ tick_job'
          /\ EndSessionWriteFails => (~SessionActive' /\ session_elapsed' = 0)]_vars

\* ------------------------------------------------------- statistics claims
IsPrefix(a, b) == Len(a) <= Len(b) /\ SubSeq(b, 1, Len(a)) = a
StatsCall ==
    \/ load
    \/ \E start_day \in Days, end_day \in Days :
          sessions_by_task_in_range(start_day, end_day)
CanParse(row) == parse_ok(row.timestamp)

\* C17: the log is append-only.  Every step leaves the rows that were in the
\* log as a prefix of the rows that are in it afterwards, both for the rows the
\* timer operations write and for the file the engine reads, and a statistics
\* call leaves the file exactly as it was.
C17_AppendOnly ==
    [][/\ IsPrefix(log, log')
       /\ IsPrefix(log_file, log_file')
       /\ StatsCall => log_file' = log_file]_vars
\* A row was appended to a file the engine had loaded before, and the engine
\* was then asked for the sessions: the file holds two parseable rows, the
\* engine's events only the first of them.
C17_Witness ==
    /\ Len(log_file) = 2
    /\ \A i \in 1..2 : CanParse(log_file[i]) /\ int_ok(log_file[i].session_seconds)
    /\ events = <<EventOf(log_file[1])>>
    /\ result.op = "sessions_by_task_in_range"

\* The rows of a file in timestamp order, rows of one timestamp in file
\* order: the indices of the rows in I, the earliest first.
RowKey(file, i) == DtKey(parse_ts(file[i].timestamp))
EarlierRow(file, i, j) ==
    \/ RowKey(file, i) < RowKey(file, j)
    \/ RowKey(file, i) = RowKey(file, j) /\ i < j
RECURSIVE IndexOrder(_, _)
IndexOrder(file, I) ==
    IF I = {} THEN <<>>
    ELSE LET m == CHOOSE i \in I : \A j \in I \ {i} : EarlierRow(file, i, j)
         IN <<m>> \o IndexOrder(file, I \ {m})
Parseable(file) == {i \in 1..Len(file) : CanParse(file[i])}
Loadable(file) == {i \in Parseable(file) : int_ok(file[i].session_seconds)}

\* C18: load returns exactly the records of the log whose timestamp parses,
\* in ascending order of timestamp whatever their order in the file, records
\* of equal timestamp in file order; records whose timestamp does not parse
\* are skipped silently.
C18_LoadOrdered ==
    [][load =>
         LET idx == IndexOrder(log_file, Parseable(log_file))
         IN /\ ~result'.raised
            /\ Len(events') = Len(idx)
            /\ \A k \in 1..Len(idx) :
                  /\ events'[k].timestamp = log_file[idx[k]].timestamp
                  /\ events'[k].event = Strip(log_file[idx[k]].event)
                  /\ events'[k].task = Strip(log_file[idx[k]].task)]_vars

\* C19: a record whose session_seconds is not an integer is skipped: load of
\* a log that holds such a record does not fail and returns every other
\* parseable record, in timestamp order.
C19_NonIntegerSkipped ==
    [][(load /\ \E i \in 1..Len(log_file) : ~int_ok(log_file[i].session_seconds)) =>
         LET idx == IndexOrder(log_file, Loadable(log_file))
         IN /\ ~result'.raised
            /\ events' = [k \in 1..Len(idx) |-> EventOf(log_file[idx[k]])]]_vars

\* The events of one kind in a day range that belong to a task, by position.
EventsOf(kind, task, start_day, end_day) ==
    {i \in 1..Len(events) : /\ start_day <= events[i].day
                             /\ events[i].day <= end_day
                             /\ events[i].event = kind
                             /\ SessionTask(events[i]) = task}
RECURSIVE SumSecs(_)
SumSecs(I) ==
    IF I = {} THEN 0
    ELSE LET i == CHOOSE k \in I : TRUE IN events[i].secs + SumSecs(I \ {i})
SessionTasks(start_day, end_day) ==
    {SessionTask(events[i]) : i \in
        {k \in 1..Len(events) : /\ start_day <= events[k].day
                                 /\ events[k].day <= end_day
                                 /\ events[k].event \in {<<"stop">>, <<"cancel">>}}}

\* C20: sessions_by_task_in_range returns one row for each task that has a
\* stop or a cancel event in the range.  The sessions of a row are the stop
\* events of its task in the range and total_secs the sum of their seconds;
\* the cancel events of the task add one each to cancels and nothing to
\* sessions or total_secs; session_complete events (and all other events)
\* add nothing and make no row; avg is total_secs / sessions, and is
\* undefined when sessions is 0.
C20_SessionsByTask ==
    [][\A start_day \in Days, end_day \in Days :
         sessions_by_task_in_range(start_day, end_day) =>
           LET rows == result'.value
           IN /\ {rows[k].task : k \in 1..Len(rows)} = SessionTasks(start_day, end_day)
              /\ Len(rows) = Cardinality(SessionTasks(start_day, end_day))
              /\ \A k \in 1..Len(rows) :
                    LET stops == EventsOf(<<"stop">>, rows[k].task, start_day, end_day)
                        cancels == EventsOf(<<"cancel">>, rows[k].task, start_day, end_day)
                    IN /\ rows[k].sessions = Cardinality(stops)
                       /\ rows[k].total_secs = SumSecs(stops)
                       /\ rows[k].cancels = Cardinality(cancels)
                       /\ IF rows[k].sessions = 0
                          THEN rows[k].avg = NoAverage
                          ELSE /\ Len(rows[k].avg) = 2
                               /\ rows[k].avg[1] * rows[k].sessions
                                     = rows[k].total_secs * rows[k].avg[2]]_vars
\* The sessions of day 0 were asked for with a stop of 1800 seconds, a cancel
\* after 900 seconds and a session_complete of the same task in the events:
\* one session of 1800 seconds, average 1800, one cancel.
C20_Witness ==
    /\ result.op = "sessions_by_task_in_range"
    /\ result.args = <<0, 0>>
    /\ Len(events) = 3
    /\ {events[i].event : i \in 1..3} = {<<"stop">>, <<"cancel">>, <<"session_complete">>}
    /\ result.value = <<[task |-> <<"W">>, sessions |-> 1, total_secs |-> 1800,
                         avg |-> <<1800, 1>>, cancels |-> 1]>>

\* The window of the start event at position i of a list of events: the
\* positions after i up to, not including, the next stop, cancel or start.
Window(evs, i) ==
    {j \in (i + 1)..Len(evs) :
        \A k \in (i + 1)..j : evs[k].event \notin Boundary}
FirstMark(evs, i) ==
    {j \in Window(evs, i) :
        /\ evs[j].event = <<"procrastination">>
        /\ \A k \in Window(evs, i) :
              evs[k].event = <<"procrastination">> => j <= k}
\* the start events that have a procrastination in their window
MarkedStarts(evs) ==
    {i \in 1..Len(evs) : evs[i].event = <<"start">> /\ FirstMark(evs, i) # {}}
RECURSIVE SumFirstMarks(_, _)
SumFirstMarks(evs, I) ==
    IF I = {} THEN 0
    ELSE LET i == CHOOSE k \in I : TRUE
             j == CHOOSE k \in FirstMark(evs, i) : TRUE
         IN evs[j].secs + SumFirstMarks(evs, I \ {i})
\* a and b are the same number, or both undefined
SameQuotient(a, b) ==
    IF a = NoAverage \/ b = NoAverage THEN a = b
    ELSE a[1] * b[2] = b[1] * a[2]

\* C21: the average time to the first procrastination returned by
\* session_stats_in_range is the mean, over the start events of the range
\* that have a procrastination event inside their window (the events up to
\* the next stop, cancel or start), of the session_seconds of the first such
\* event; it is undefined when no start has one.  This is so for every
\* sequence of events, a start directly followed by another start included.
C21_TimeToFirstProcrastination ==
    [][\A start_day \in Days, end_day \in Days :
         session_stats_in_range(start_day, end_day) =>
           LET evs == events_in_range(start_day, end_day)
               marked == MarkedStarts(evs)
           IN SameQuotient(result'.value.avg_tt,
                           IF marked = {} THEN NoAverage
                           ELSE <<SumFirstMarks(evs, marked), Cardinality(marked)>>)]_vars

\* The positions of the events of one kind in a day range.
KindIn(kind, start_day, end_day) ==
    {i \in 1..Len(events) : /\ start_day <= events[i].day
                             /\ events[i].day <= end_day
                             /\ events[i].event = kind}

\* C22: session_stats_in_range returns as average session duration the mean
\* of session_seconds over the stop events of the range, undefined when the
\* range has no stop event, and as cancel rate cancels / (stops + cancels),
\* undefined when the range has neither; session_complete events enter
\* neither value.
C22_AverageAndCancelRate ==
    [][\A start_day \in Days, end_day \in Days :
         session_stats_in_range(start_day, end_day) =>
           LET stops == KindIn(<<"stop">>, start_day, end_day)
               cancels == KindIn(<<"cancel">>, start_day, end_day)
               n == Cardinality(stops) + Cardinality(cancels)
           IN /\ SameQuotient(result'.value.avg_secs,
                               IF stops = {} THEN NoAverage
                               ELSE <<SumSecs(stops), Cardinality(stops)>>)
              /\ SameQuotient(result'.value.cancel_rate,
                               IF n = 0 THEN NoAverage
                               ELSE <<Cardinality(cancels), n>>)]_vars
\* The statistics of day 0 were asked for with a stop of 1800 seconds, a
\* cancel after 900 seconds and a session_complete in the events: the average
\* is 1800 and the cancel rate one half.
C22_Witness ==
    /\ result.op = "session_stats_in_range"
    /\ result.args = <<0, 0>>
    /\ Len(events) = 3
    /\ {events[i].event : i \in 1..3} = {<<"stop">>, <<"cancel">>, <<"session_complete">>}
    /\ result.value.avg_secs = <<1800, 1>>
    /\ result.value.cancel_rate = <<1, 2>>

\* The interval_min an event's note carries: the integer of the first token
\* "interval_min=..." of the note, 0 when the note has no such token or the
\* token has no integer.
IntervalOfNote(note) ==
    LET at == {k \in 1..Len(note) : note[k].key = "interval_min"}
    IN IF at = {} THEN 0
       ELSE LET k == CHOOSE m \in at : \A n \in at : m <= n
            IN IF note[k].word = "" THEN note[k].val ELSE 0
RECURSIVE SumMinutes(_)
SumMinutes(I) ==
    IF I = {} THEN 0
    ELSE LET i == CHOOSE k \in I : TRUE
         IN IntervalOfNote(events[i].note) + SumMinutes(I \ {i})
OnDay(kind, d) == KindIn(kind, d, d)

\* C23: summary_for_day(d) counts over the events of day d.  on_min is the
\* sum of the notes' interval_min over the checkin_on_task events, off_min the
\* sum over the checkin_off_task and procrastination events; an event whose
\* note has no interval_min adds no minutes and is counted.  Every raw count
\* is the number of events of its kind, a session_complete event counting
\* both as a complete and as a stop.
C23_SummaryForDay ==
    [][\A d \in SummaryDays :
         summary_for_day(d) =>
           LET r == result'.value
           IN /\ r.on_min = SumMinutes(OnDay(<<"checkin_on_task">>, d))
              /\ r.off_min = SumMinutes(OnDay(<<"checkin_off_task">>, d)
                                        \cup OnDay(<<"procrastination">>, d))
              /\ r.checkins_on = Cardinality(OnDay(<<"checkin_on_task">>, d))
              /\ r.checkins_off = Cardinality(OnDay(<<"checkin_off_task">>, d))
              /\ r.procrastinations = Cardinality(OnDay(<<"procrastination">>, d))
              /\ r.starts = Cardinality(OnDay(<<"start">>, d))
              /\ r.cancels = Cardinality(OnDay(<<"cancel">>, d))
              /\ r.breaks = Cardinality(OnDay(<<"break">>, d))
              /\ r.completes = Cardinality(OnDay(<<"session_complete">>, d))
              /\ r.stops = Cardinality(OnDay(<<"stop">>, d))
                             + Cardinality(OnDay(<<"session_complete">>, d))]_vars
\* The summary of day 0 was asked for with a check-in of 10 minutes, a
\* check-in whose note has no integer interval_min and a procrastination of
\* 5 minutes in the events.
C23_Witness ==
    /\ result.op = "summary_for_day"
    /\ result.args = <<0>>
    /\ Len(events) = 3
    /\ \E i \in 1..3 : events[i].event = <<"checkin_on_task">> /\ events[i].note[1] = KVJunk("interval_min")
    /\ result.value.on_min = 10
    /\ result.value.checkins_on = 2
    /\ result.value.off_min = 5
    /\ result.value.procrastinations = 1

\* C24: summary_for_day returns ratio_on = on_min / (on_min + off_min) when
\* that total is positive, and an undefined value, neither zero nor an
\* error, when the total is 0.
C24_RatioOn ==
    [][\A d \in SummaryDays :
         summary_for_day(d) =>
           LET r == result'.value
               total == r.on_min + r.off_min
           IN /\ ~result'.raised
              /\ r.total_min = total
              /\ total > 0 =>
                    /\ r.ratio_on # NoAverage
                    /\ r.ratio_on[1] * total = r.on_min * r.ratio_on[2]
              /\ total = 0 => r.ratio_on = NoAverage]_vars
\* The summary of a day was asked for whose only check-ins carry no
\* interval_min: the day has events, no minutes, and its ratio is undefined.
C24_Witness ==
    /\ result.op = "summary_for_day"
    /\ result.value.checkins_on + result.value.checkins_off > 0
    /\ result.value.on_min + result.value.off_min = 0
    /\ result.value.ratio_on = NoAverage

\* The aggregation calls of the engine.
Aggregation ==
    \/ \E d \in SummaryDays : summary_for_day(d)
    \/ \E anchor \in Anchors : week_summary(anchor)
    \/ \E start_day \in Days, end_day \in Days :
          \/ sessions_by_task_in_range(start_day, end_day)
          \/ session_stats_in_range(start_day, end_day)
          \/ on_off_by_task_in_range(start_day, end_day)

\* C25: summary_for_day is idempotent under reload.  Loading a log that has
\* not changed since it was last loaded, whatever aggregation was called in
\* between, leaves the summary of every day as it was, and an aggregation
\* call leaves the cached events as they were.
C25_ReloadIdempotent ==
    [][/\ (load /\ loads >= 1) => \A d \in SummaryDays : Summary(d)' = Summary(d)
       /\ Aggregation => events' = events]_vars
\* An unchanged log with a check-in was loaded twice and the summary of day 0
\* asked for.
C25_Witness ==
    /\ loads = 2
    /\ result.op = "summary_for_day"
    /\ result.args = <<0>>
    /\ result.value.checkins_on > 0
    /\ result.value = Summary(0)

\* The summary of a day without events.
EmptySummary(d) ==
    [day |-> d, on_min |-> 0, off_min |-> 0, total_min |-> 0, ratio_on |-> NoAverage,
     checkins_on |-> 0, checkins_off |-> 0, procrastinations |-> 0, starts |-> 0,
     stops |-> 0, cancels |-> 0, completes |-> 0, breaks |-> 0]
HasEvents(d) == \E i \in 1..Len(events) : events[i].day = d

\* C26: week_summary(anchor) returns seven summaries, one for each of the
\* consecutive days from the Monday to the Sunday of the week that holds the
\* anchor, in that order; a day without events has a summary whose counts and
\* minutes are all zero and whose ratio_on is undefined.
C26_WeekSummary ==
    [][\A anchor \in Anchors :
         week_summary(anchor) =>
           LET days == result'.value.days
               per_day == result'.value.per_day
           IN /\ Len(days) = 7 /\ Len(per_day) = 7
              /\ days[1] % 7 = 0
              /\ days[1] <= anchor /\ anchor <= days[7]
              /\ \A i \in 1..6 : days[i + 1] = days[i] + 1
              /\ \A i \in 1..7 :
                    /\ per_day[i].day = days[i]
                    /\ per_day[i] = Summary(days[i])
                    /\ ~HasEvents(days[i]) => per_day[i] = EmptySummary(days[i])]_vars
\* The week of a Sunday was asked for: it starts six days earlier, on the
\* Monday, whose summary has a check-in; the Sunday itself has no events.
C26_Witness ==
    /\ result.op = "week_summary"
    /\ result.args = <<6>>
    /\ result.value.days = <<0, 1, 2, 3, 4, 5, 6>>
    /\ result.value.per_day[1].checkins_on > 0
    /\ result.value.per_day[7] = EmptySummary(6)

\* A row read back as a (timestamp, event, task, secs, note) tuple; the
\* seconds are the integer the text holds, or the text itself when it holds
\* none.
TupleOf(row) ==
    <<row.timestamp, Strip(row.event), Strip(row.task),
      IF int_ok(row.session_seconds) THEN IntText(int_of(row.session_seconds))
      ELSE row.session_seconds,
      row.note>>
\* the records of the log that lie in the week of a day
WeekRecords(today) ==
    {i \in Parseable(log_file) :
        /\ monday_of(today) <= day_key(parse_ts(log_file[i].timestamp))
        /\ day_key(parse_ts(log_file[i].timestamp)) <= monday_of(today) + 6}

\* C27: export round trip.  After the log has been loaded, the rows of the
\* Events section of the weekly export, read back as (timestamp, event, task,
\* secs, note) tuples, are the same set of tuples as the records of the log
\* in the exported week, whatever the log.
C27_ExportRoundTrip ==
    [][\A today \in Anchors :
         (export_current_week_csv(today) /\ loads >= 1) =>
           {TupleOf(result'.value[k]) : k \in 1..Len(result'.value)}
             = {TupleOf(log_file[i]) : i \in WeekRecords(today)}]_vars

\* the log is missing or holds the header only
EmptyLog == log_file = <<>>
NoStats == [avg_secs |-> NoAverage, cancel_rate |-> NoAverage, avg_tt |-> NoAverage]

\* C28: on an empty log, header only or missing file, load and every
\* aggregation call return without raising: summary_for_day and each day of
\* week_summary have zero counts and minutes and an undefined ratio,
\* on_off_by_task_in_range and sessions_by_task_in_range return no rows, and
\* session_stats_in_range returns three undefined values.
C28_EmptyLog ==
    [][EmptyLog =>
         /\ load => (~result'.raised /\ events' = <<>>)
         /\ Aggregation => ~result'.raised
         /\ \A d \in SummaryDays :
               summary_for_day(d) => result'.value = EmptySummary(d)
         /\ \A anchor \in Anchors :
               week_summary(anchor) =>
                 /\ Len(result'.value.per_day) = 7
                 /\ \A i \in 1..7 :
                       result'.value.per_day[i] = EmptySummary(result'.value.days[i])
         /\ \A start_day \in Days, end_day \in Days :
               /\ on_off_by_task_in_range(start_day, end_day) => result'.value = <<>>
               /\ sessions_by_task_in_range(start_day, end_day) => result'.value = <<>>
               /\ session_stats_in_range(start_day, end_day) => result'.value = NoStats]_vars
\* The log file is missing; the engine has loaded it and has been asked for
\* the statistics of the sessions.
C28_Witness ==
    /\ ~log_exists
    /\ loads >= 1
    /\ result.op = "session_stats_in_range"
    /\ result.value = NoStats

\* ------------------------------------------------------------ timer claims
\* A step that refers to the profile of a task without changing it.
Reference == (\E raw \in RawTasks : SetActiveTask(raw)) \/ start_session

\* C29: a task profile is created on the first reference to its task, with
\* interval_min 10 and yes_streak 0, and is never deleted.  No step removes
\* a key of the profile store; a key that appears is the task the step refers
\* to and its profile is the default one, or what the step's own adaptation
\* or override makes of the default one; and a step that only refers to a
\* task leaves every existing profile as it was.
C29_ProfilesKept ==
    [][/\ DOMAIN tasks \subseteq DOMAIN tasks'
       /\ \A t \in DOMAIN tasks' \ DOMAIN tasks :
             /\ t = Strip(active_task')
             /\ \/ tasks'[t] = NewProfile
                \/ OnTaskResponse /\ tasks'[t] = AdaptedProfile(TRUE, NewProfile)
                \/ /\ OffTaskResponse \/ ProcrastinationMark
                   /\ tasks'[t] = AdaptedProfile(FALSE, NewProfile)
                \/ _manual_interval_changed /\ tasks'[t].yes_streak = 0
       /\ Reference => \A t \in DOMAIN tasks : tasks'[t] = tasks[t]
       /\ \A t \in DOMAIN tasks :
             tasks'[t] # tasks[t] =>
               /\ Adaptation \/ _manual_interval_changed
               /\ t = ActiveTask]_vars
\* A second task was referred to for the first time and got the default
\* profile; then a session was started on the first task, whose saved
\* profile (29 minutes, streak 1) is still what it was.
C29_Witness ==
    /\ DOMAIN tasks = {InitialTask, <<"X">>}
    /\ tasks[<<"X">>] = NewProfile
    /\ tasks[InitialTask] = Profile(29, 1)
    /\ SessionActive
    /\ ActiveTask = InitialTask
    /\ active_task # InitialTask
    /\ current_interval_min = 29

\* A step that opens a session: Start, or "Continue" at the end of one.
Opening == start_session \/ do_continue \/ StartWriteFails

\* C30: while a session runs, a tick adds max(0, now - last tick) to the
\* elapsed seconds; a tick while no session runs (idle or on a break) leaves
\* them as they are; and between the start of a session and its end the
\* elapsed seconds never decrease, also when the clock moves backward.
C30_ElapsedMonotone ==
    [][/\ (_tick /\ SessionActive) =>
             session_elapsed' = session_elapsed
                 + (IF last_tick = None \/ clock <= last_tick THEN 0
                    ELSE clock - last_tick)
       /\ (_tick /\ ~SessionActive) => session_elapsed' = session_elapsed
       /\ (SessionActive /\ SessionActive' /\ ~Opening) =>
             session_elapsed' >= session_elapsed]_vars
\* A session has run for a clock step; the clock was then set back by as much
\* and a tick has run: the elapsed seconds are still those of the step.
C30_Witness ==
    /\ SessionActive
    /\ session_elapsed = Step
    /\ clock = Clock0
    /\ last_tick = Clock0
    /\ session_start_ts = Clock0
    /\ ~in_tick
\* A step opens the check-in dialog.
CheckinOpens == stack' # <<>> /\ stack'[Len(stack')].kind = "checkin" /\ ~TopIs("checkin")
IsCheckin(row) == row.event \in {"checkin_on_task", "checkin_off_task"}
\* a step is taken by the tick: by _tick itself, or by the close of a dialog
\* the tick waits for
ByTick == _tick \/ in_tick

\* C31 (as the code has it): the check-in dialog is opened by the tick only,
\* and only for a running session with check-ins enabled whose elapsed time
\* has reached next_prompt_at; with check-ins disabled no check-in dialog
\* opens and no check-in row is appended, and an interval_adapt row is
\* appended only by a procrastination mark.
C31_CheckinTrigger ==
    /\ [][CheckinOpens =>
             /\ ByTick
             /\ SessionActive'
             /\ prompt_enabled
             /\ next_prompt_at' # None
             /\ session_elapsed' >= next_prompt_at']_vars
    /\ [][~prompt_enabled =>
             /\ ~CheckinOpens
             /\ \A i \in 1..Len(NewRows) :
                   /\ ~IsCheckin(NewRows[i])
                   /\ IsAdapt(NewRows[i]) => ProcrastinationMark]_vars
    /\ [](~prompt_enabled => ~(TopIs("checkin") \/ TopIs("offreason")))

\* C31 (as stated): with check-ins disabled no checkin and no interval_adapt
\* row is appended.
C31_NoAdaptWhenDisabled ==
    [][~prompt_enabled =>
          \A i \in 1..Len(NewRows) :
             ~IsCheckin(NewRows[i]) /\ ~IsAdapt(NewRows[i])]_vars

\* Check-ins are disabled and the session has run past its threshold: the
\* tick has passed the check-in test and no dialog is open.
C31_Witness ==
    /\ ~prompt_enabled
    /\ SessionActive
    /\ next_prompt_at # None
    /\ session_elapsed >= next_prompt_at
    /\ last_tick = clock
    /\ stack = <<>>
    /\ ~in_tick
    /\ Len(log) = 1

IsStart(row) == row.event = "start"
IsClosing(row) == row.event \in {"stop", "cancel"}
\* the rows of the log strictly between row i and row j
Between(i, j) == {k \in 1..Len(log) : i < k /\ k < j}

\* C33 (as stated): between a start row and the next start row of the log
\* there is exactly one stop or cancel row, and every step that ends a
\* running session (or replaces it by a new one) appends a stop or cancel
\* row.
C33_LogWellFormed ==
    /\ [](\A i, j \in 1..Len(log) :
             (/\ i < j
              /\ IsStart(log[i])
              /\ IsStart(log[j])
              /\ \A k \in Between(i, j) : ~IsStart(log[k])) =>
                Cardinality({k \in Between(i, j) : IsClosing(log[k])}) = 1)
    /\ [][(SessionActive /\ (~SessionActive' \/ session_start_ts' # session_start_ts
                                \/ \E k \in 1..Len(NewRows) : IsStart(NewRows[k]))) =>
             \E k \in 1..Len(NewRows) : IsClosing(NewRows[k])]_vars

\* C34 (as stated): a step appends an interval_adapt row only when the
\* interval_min of the active task's profile changed value in that step; an
\* off-task response at interval 3 and a second consecutive on-task response
\* at interval 30 append none.
C34_AdaptOnlyOnChange ==
    [][AdaptRows(NewRows) # {} =>
          /\ ActiveTask # <<>>
          /\ ProfileAfter.interval_min # ProfileBefore.interval_min]_vars

\* the check-in test of the tick holds
CheckinDue ==
    /\ SessionActive
    /\ prompt_enabled
    /\ next_prompt_at # None
    /\ session_elapsed >= next_prompt_at

\* C35 (as stated): an answered check-in (on-task, or off-task with a
\* reason) leaves next_prompt_at strictly greater than the elapsed time of
\* the session; a check-in closed without an answer, or whose reason prompt
\* is dismissed, leaves next_prompt_at unchanged and the check-in due, and a
\* tick of a session whose check-in is due opens the check-in dialog (after
\* the session-finished dialog, when that one is due too).
C35_NextCheckin ==
    /\ [][(OnTaskResponse \/ OffTaskResponse) =>
             /\ next_prompt_at' # None
             /\ next_prompt_at' > session_elapsed']_vars
    /\ [][CheckinDismissed =>
             /\ UNCHANGED <<next_prompt_at, session_elapsed, session_start_ts>>
             /\ CheckinDue']_vars
    /\ [][(_tick /\ CheckinDue) =>
             \/ CheckinOpens
             \/ stack'[Len(stack')].kind = "finished"]_vars

\* the value of key k in a note, as the set of the values of its k= tokens
NoteValues(note, k) == {note[i].val : i \in {n \in 1..Len(note) : note[n].key = k}}

\* C36 (as stated): an answered check-in appends its checkin_on_task or
\* checkin_off_task row first and the interval_adapt row it causes, if any,
\* after it; the note of the check-in row carries the interval_min the
\* task's profile held before the adaptation, the note of the
\* interval_adapt row the interval_min it holds after it.
C36_CheckinBeforeAdapt ==
    [][(OnTaskResponse \/ OffTaskResponse) =>
          /\ Len(NewRows) \in {1, 2}
          /\ IsCheckin(NewRows[1])
          /\ \A k \in 2..Len(NewRows) : IsAdapt(NewRows[k])
          /\ ActiveTask # <<>> =>
                /\ NoteValues(NewRows[1].note, "interval_min")
                      = {ProfileBefore.interval_min}
                /\ \A k \in AdaptRows(NewRows) :
                      NewRows[k].note = <<KV("interval_min", ProfileAfter.interval_min)>>]_vars

\* C37: the yes_streak of every task profile is 0 or 1.  A profile comes to
\* streak 1 only by an on-task response to its task at streak 0, and keeps
\* streak 1 only while the profile is not touched: the next on-task
\* response, an off-task outcome and an override set it to 0, so the
\* threshold 2 is never stored.
C37_StreakZeroOrOne ==
    /\ [](\A t \in DOMAIN tasks : tasks[t].yes_streak \in {0, 1})
    /\ [][\A t \in DOMAIN tasks' :
             tasks'[t].yes_streak = 1 =>
                \/ t \in DOMAIN tasks /\ tasks'[t] = tasks[t]
                \/ /\ OnTaskResponse
                   /\ t = ActiveTask
                   /\ ProfileBefore.yes_streak = 0
                   /\ tasks'[t].interval_min = ProfileBefore.interval_min]_vars
    /\ [][((Adaptation \/ _manual_interval_changed) /\ ActiveTask # <<>>
              /\ ProfileBefore.yes_streak = 1) =>
             ProfileAfter.yes_streak = 0]_vars

\* A first on-task response has been given for a task at the default
\* interval: its streak is 1 and its interval is still 10.
C37_Witness ==
    /\ log # <<>>
    /\ LastRow.event = "checkin_on_task"
    /\ ActiveTask \in DOMAIN tasks
    /\ tasks[ActiveTask] = Profile(DEFAULT_INTERVAL_MIN, 1)
    /\ SessionActive
    /\ stack = <<>>

\* the start row that opened the running session: the last one of the log
StartRows == {k \in 1..Len(log) : IsStart(log[k])}
LastStart == log[CHOOSE k \in StartRows : \A n \in StartRows : n <= k]
\* the session runs and its start row was written
SessionLogged == SessionActive /\ StartRows # {} /\ errors = 0

\* C38 (as stated): the stop or cancel row that ends a session carries the
\* task of the start row that opened it, and the responses given during the
\* session (check-ins, procrastination marks) change the profile of that
\* task and of no other, also when the task entry was edited meanwhile.
C38_SessionTask ==
    [][SessionLogged =>
          /\ \A k \in 1..Len(NewRows) :
                IsClosing(NewRows[k]) => NewRows[k].task = LastStart.task
          /\ Adaptation =>
                \A t \in DOMAIN tasks' :
                   (t \notin DOMAIN tasks \/ tasks'[t] # tasks[t]) => t = LastStart.task]_vars

\* ----------------------------------------------------------- window claims
\* the field of a job
JobField(j) ==
    CASE j = "geometry" -> _geom_save_job
      [] j = "notes" -> _notes_save_job
      [] j = "refresh" -> _refresh_job
\* the handlers of job j in Tk's queue
Pending(j) == {t \in after_queue : t.job = j}
\* a request to job j, and the run of its action
Request(j) ==
    CASE j = "geometry" -> \E g \in Geometries : _on_window_configure(g)
      [] j = "notes" -> \E txt \in NoteTexts : _schedule_save_current_note(txt)
      [] j = "refresh" -> _request_refresh
Fires(j) ==
    CASE j = "geometry" -> _save_window_geometry
      [] j = "notes" -> _save_current_note
      [] j = "refresh" -> _refresh_stats

\* C32: for each of the three jobs, at most one handler is pending at any
\* time, and it is the one the field of the job names; a request replaces
\* the pending handler by one that is due a full delay later; the action
\* runs only when the delay has passed since the last request (so never
\* inside a burst), with no handler left pending behind it (so once for the
\* burst); and a pending job is eventually run.
C32_Debounce ==
    /\ [](\A j \in Jobs :
             /\ Cardinality(Pending(j)) <= 1
             /\ Pending(j) = {t \in after_queue : t.id = JobField(j)})
    /\ [][\A j \in Jobs :
             /\ Request(j) =>
                   Pending(j)' = {[id |-> JobField(j)', job |-> j, left |-> Delay(j)]}
             /\ Fires(j) =>
                   /\ quiet[j] >= Delay(j)
                   /\ Pending(j) # {}
                   /\ Pending(j)' = {}
                   /\ JobField(j)' = None]_vars
    /\ [][_save_window_geometry => window_geometry' = geometry]_vars
    /\ \A j \in Jobs : (JobField(j) # None) ~> (JobField(j) = None)

\* A burst of three resizes has been answered by one save, of the last size.
C32_Witness ==
    /\ requests = 3
    /\ after_id = 3
    /\ after_queue = {}
    /\ _geom_save_job = None
    /\ geometry = "1200x800"
    /\ window_geometry = "1200x800"
    /\ quiet["geometry"] = Delay("geometry")

\* C39 (as stated): the text x typed into the notes widget while day D is
\* selected, with the save pending, is eventually stored under D, also when
\* another day is selected before the save runs (unless the widget comes to
\* show another text for D: D is clicked again or its note is edited anew).
C39_NotePersisted ==
    \A D \in NoteDays : \A x \in NoteTexts :
       (selected_day = D /\ notes_text = x /\ _notes_save_job # None)
          ~> (\/ notes_map[D] = RStrip(x)
              \/ selected_day = D /\ notes_text # x)

\* ------------------------------------------------------------ timer liveness
\* A session runs with check-ins enabled and the tick alive, and no check-in
\* is open.
Awaiting ==
    /\ SessionActive
    /\ prompt_enabled
    /\ tick_job
    /\ ~TopIs("checkin")
    /\ ~TopIs("offreason")
\* The time followed is used up before the next check-in is due: the last
\* tick has run and the threshold lies ahead.
OutOfTime ==
    /\ clock + Step > LiveHorizon
    /\ last_tick = clock
    /\ stack = <<>>
    /\ next_prompt_at # None
    /\ session_elapsed < next_prompt_at

====
